---- MODULE Spec2Model ----
(***************************************************************************)
(* pg-migrate-runner: the migrate()/rollback() engine of MigrationRunner,  *)
(* the advisory lock helpers and the database / connection pool they talk  *)
(* to.                                                                     *)
(*                                                                         *)
(* Every await of the TypeScript source is one action, so that the calls   *)
(* of different processes interleave exactly where the event loop and the  *)
(* database let them.  A statement that the database rejects has no effect *)
(* on the database.  Versions (14-digit strings, compared with             *)
(* localeCompare) are modelled by the integers 1..MaxVersion in the same   *)
(* order.                                                                  *)
(***************************************************************************)
EXTENDS Integers, Sequences, FiniteSets, TLC

\* ---------------------------------------------------------------- bounds
MaxVersion == 2
NumProcs == 2
MaxCalls == 2
MaxFaults == 2
MaxCount == 1
MaxCountSolo == 2
MaxRuns == 3
MaxContentLen == 4
MaxFiles == 2
MaxSqlLen == 6

\* ------------------------------------------------------ program constants
DEFAULT_LOCK_ID == 741953
PoolMax == 2
NameLimit == 100

Versions == 1..MaxVersion
Procs == 1..NumProcs
ConnIds == 1..PoolMax
LockIds == {DEFAULT_LOCK_ID, 99999}
FileKinds == {"missing", "nodown", "full"}

WriteKinds == {"up", "ins", "down", "del"}

NoConn == 0
NoSession == <<0, 0>>
NoFail == [version |-> 0, error |-> ""]
NoExc == [name |-> "none", message |-> "", lockId |-> 0]
NoBefore == [tableExists |-> FALSE, records |-> {}, effects |-> {}, checksums |-> <<>>]

VARIABLES
    tableExists,  \* the tracking table exists
    records,      \* committed rows of the tracking table (their versions)
    checksums,    \* version -> checksum column of its committed row, NoSum without one
    effects,      \* versions whose up-body effects are committed in the schema
    lockHolder,   \* advisory lock id -> session <<process, connection>> holding it
    lockCount,    \* advisory lock id -> how many times its session holds it
    disk,         \* migrations directory: version -> kind of file
    faults,       \* statements / checkouts the environment has failed so far
    runner,       \* process -> [useLock, lockId] of its MigrationRunner
    pool,         \* process -> connection -> "idle" | "out"
    tx,           \* process -> transaction open on its execution connection
    pc,           \* process -> position in the running call
    op,           \* process -> "none" | "migrate" | "rollback"
    dryRun,       \* process -> options.dryRun of the running call
    count,        \* process -> the count argument of the running rollback
    queue,        \* process -> items still to process: <<[version, kind]>>
    lockClient,   \* process -> lock connection of the running call, or NoConn
    client,       \* process -> execution connection of the current item, or NoConn
    summary,      \* process -> the summary being built
    err,          \* process -> message of the error caught for the current item
    exc,          \* process -> exception propagating out of the call
    log,          \* process -> statements and pool events of the running call
    commitCount,  \* <<kind, version>> -> writes of that kind made visible so far
    calls,        \* calls started so far, by all processes
    before,       \* process -> the database as it was when the running call started
    prev,         \* process -> how its previous call ended
    name,         \* the name handed to sanitizeName / createMigrationFile
    content,      \* the text of a migration file, as parseMigrationFile reads it
    edited,       \* the text of the same file after somebody edited it
    dir,          \* the migrations directory as readdirSync enumerates it
    ret           \* what the helper called last returned

dbVars == <<tableExists, records, checksums, effects, commitCount, lockHolder, lockCount>>
envVars == <<disk, faults>>
callVars == <<pc, op, dryRun, count, queue, lockClient, client, summary, err, exc, log, calls, before, prev>>
helperVars == <<name, content, edited, dir, ret>>
vars == <<tableExists, records, checksums, effects, commitCount, lockHolder, lockCount, disk, faults,
          runner, pool, tx, pc, op, dryRun, count, queue, lockClient, client, summary, err,
          exc, log, calls, before, prev, name, content, edited, dir, ret>>

\* --------------------------------------------------------------- helpers
Min(S) == CHOOSE x \in S : \A y \in S : x <= y

RECURSIVE SortAsc(_)
\* Array.prototype.sort by version / ORDER BY version ASC
SortAsc(S) == IF S = {} THEN <<>> ELSE <<Min(S)>> \o SortAsc(S \ {Min(S)})

RECURSIVE Reverse(_)
Reverse(s) == IF s = <<>> THEN <<>> ELSE Reverse(Tail(s)) \o <<Head(s)>>

\* Array.prototype.slice(start) with JavaScript's treatment of a negative start
SliceFrom(s, start) ==
    LET n == Len(s)
        from == IF start < 0
                THEN (IF n + start < 0 THEN 0 ELSE n + start)
                ELSE (IF start > n THEN n ELSE start)
    IN  SubSeq(s, from + 1, n)

SeqRange(s) == {s[i] : i \in 1..Len(s)}

\* one statement or pool event of a call: the connection (0: through pool.query, or
\* no connection obtained), what was issued, the version (or lock id) it is about, and
\* "ok" or the message of the error it raised ("refused": the try-lock answered false)
Entry(c, s, v, r) == [c |-> c, s |-> s, v |-> v, r |-> r]

\* MigrationLockError(lockId)
MigrationLockErrorNoId(id) == [name |-> "MigrationLockError", message |-> "lock", lockId |-> 0]
MigrationLockError(id) == [name |-> "MigrationLockError", message |-> "lock", lockId |-> id]
\* any other Error with the given message
ErrorOf(msg) == [name |-> "Error", message |-> msg, lockId |-> 0]

\* the message of the database error raised for a rejected statement
DbError(stmt) == stmt

\* new MigrationRunner(configOrPool, migrationsDir?)
NewRunnerDefaultsOff(form, cfgUseLock, cfgLockId) ==
    [useLock |-> form # "legacy" /\ cfgUseLock = "true",
     lockId |-> IF form = "legacy" \/ cfgLockId = 0 THEN DEFAULT_LOCK_ID ELSE cfgLockId]
NewRunner(form, cfgUseLock, cfgLockId) ==
    IF form = "legacy"
    THEN [useLock |-> FALSE, lockId |-> DEFAULT_LOCK_ID]
    ELSE [useLock |-> IF cfgUseLock = "unset" THEN TRUE ELSE cfgUseLock = "true",
          lockId |-> IF cfgLockId = 0 THEN DEFAULT_LOCK_ID ELSE cfgLockId]

\* the runners the processes are built with: legacy (pool, dir), config {pool},
\* config {pool, lockId: 99999}, config {pool, useLock: false}
RunnerInputs ==
    { <<"legacy", "unset", 0>>, <<"config", "unset", 0>>,
      <<"config", "unset", 99999>>, <<"config", "false", 0>> }
Runners == { NewRunner(i[1], i[2], i[3]) : i \in RunnerInputs }
\* processes are interchangeable: their runners are listed in a fixed order
RunnerRank(r) == IF ~r.useLock THEN 2 ELSE IF r.lockId = DEFAULT_LOCK_ID THEN 0 ELSE 1

IdleConns(p) == {c \in ConnIds : pool[p][c] = "idle"}

\* the connections pool.connect() may hand out: any idle one.  Idle sessions that
\* hold no advisory lock cannot be told apart, so one of them stands for all.
HoldsLock(p, c) == \E i \in LockIds : lockHolder[i] = <<p, c>>
ConnectableOrNot(p) == ConnIds
Connectable(p) ==
    LET plain == {c \in IdleConns(p) : ~HoldsLock(p, c)}
    IN  {c \in IdleConns(p) : HoldsLock(p, c)} \cup (IF plain = {} THEN {} ELSE {Min(plain)})

NoTx == [active |-> FALSE, writes |-> {}]
EmptySummary == [list |-> <<>>, failed |-> NoFail, total_pending |-> 0, total |-> 0]

\* readMigrationFiles(): the parsable files of the directory, ascending
readMigrationFilesUnsorted ==
    LET vs == Reverse(SortAsc({v \in Versions : disk[v] # "missing"}))
    IN  [i \in 1..Len(vs) |-> [version |-> vs[i], kind |-> disk[vs[i]]]]
readMigrationFilesFirstOnly ==
    LET vs == SortAsc({v \in Versions : disk[v] # "missing"})
    IN  [i \in 1..(IF vs = <<>> THEN 0 ELSE 1) |-> [version |-> vs[i], kind |-> disk[vs[i]]]]
readMigrationFiles ==
    LET vs == SortAsc({v \in Versions : disk[v] # "missing"})
    IN  [i \in 1..Len(vs) |-> [version |-> vs[i], kind |-> disk[vs[i]]]]

\* the writes of a transaction applied to the committed state
ApplyRecords(rs, ws) ==
    (rs \cup {w[2] : w \in {x \in ws : x[1] = "ins"}}) \ {w[2] : w \in {x \in ws : x[1] = "del"}}
ApplyEffects(es, ws) ==
    (es \cup {w[2] : w \in {x \in ws : x[1] = "up"}}) \ {w[2] : w \in {x \in ws : x[1] = "down"}}

\* values that stand for "nothing"
NoText == <<>>
NoDir == [exists |-> FALSE, files |-> <<>>]
NoRet == [fn |-> "none"]
NoSum == [sha256 |-> <<>>]

\* no helper has been called and none is about to be
HelpersIdle == name = NoText /\ content = NoText /\ edited = NoText /\ dir = NoDir /\ ret = NoRet

\* ----------------------------------------------------------- helpers: names
\* A string, as far as sanitizeName tells its characters apart, is a sequence of runs
\* [cls, n]: n >= 1 characters of one class, adjacent runs of different classes.
\*   "lower"  a-z and 0-9            "upper"  A-Z           "under"  the underscore
\*   "kelvin" U+212A, a letter outside ASCII whose lower case is the ASCII letter k
\*   "other"  every other character; its lower case is again such a character
CharClasses == {"lower", "upper", "under", "kelvin", "other"}
RunLengths == {1, 2, NameLimit - 1, NameLimit}
Run(cls, n) == [cls |-> cls, n |-> n]

RECURSIVE StrLen(_)
StrLen(str) == IF str = <<>> THEN 0 ELSE Head(str).n + StrLen(Tail(str))

\* adjacent runs of one class are one run
RECURSIVE Merged(_)
Merged(str) ==
    IF Len(str) < 2 THEN str
    ELSE IF str[1].cls = str[2].cls
         THEN Merged(<<Run(str[1].cls, str[1].n + str[2].n)>> \o SubSeq(str, 3, Len(str)))
         ELSE <<str[1]>> \o Merged(Tail(str))

\* the strings of at most MaxRuns runs
Names ==
    UNION { { str \in [1..k -> [cls : CharClasses, n : RunLengths]] :
                \A i \in 1..(k - 1) : str[i].cls # str[i + 1].cls } : k \in 0..MaxRuns }

\* name.toLowerCase()
toLowerCase(str) ==
    Merged([i \in 1..Len(str) |->
               Run(IF str[i].cls \in {"upper", "kelvin"} THEN "lower" ELSE str[i].cls, str[i].n)])

\* .replace(/[^a-z0-9]+/g, '_'): every maximal run of other characters becomes one "_"
CollapseKeepsLength(str) ==
    Merged([i \in 1..Len(str) |-> Run(IF str[i].cls = "lower" THEN "lower" ELSE "under", str[i].n)])
Collapse(str) ==
    LET m == CollapseKeepsLength(str)
    IN  [i \in 1..Len(m) |-> IF m[i].cls = "under" THEN Run("under", 1) ELSE m[i]]

\* .replace(/^_+|_+$/g, '')
Strip(str) ==
    LET a == IF str # <<>> /\ Head(str).cls = "under" THEN Tail(str) ELSE str
    IN  IF a # <<>> /\ a[Len(a)].cls = "under" THEN SubSeq(a, 1, Len(a) - 1) ELSE a

\* .substring(0, k)
RECURSIVE Substring(_, _)
Substring(str, k) ==
    IF str = <<>> \/ k <= 0 THEN <<>>
    ELSE IF Head(str).n >= k THEN <<Run(Head(str).cls, k)>>
         ELSE <<Head(str)>> \o Substring(Tail(str), k - Head(str).n)

\* sanitizeName(name)
sanitizeName(str) == Substring(Strip(Collapse(toLowerCase(str))), NameLimit)

\* MIGRATION_FILENAME_REGEX, the name part: [a-z0-9_]+
NameMatches(str) == str # <<>> /\ \A i \in 1..Len(str) : str[i].cls \in {"lower", "under"}

\* the file createMigrationFile writes: a header, both markers, comments as bodies
Template == <<"sqlB", "ws", "UP", "ws", "sqlA", "ws", "DOWN", "ws", "sqlB", "ws">>

\* the directories createMigrationFile may find: none, or one holding a migration
FileOf(v, nm, text) == [sql |-> TRUE, version |-> v, name |-> nm, content |-> text]
DirsBefore == {NoDir, [exists |-> TRUE, files |-> <<FileOf(1, <<Run("lower", 1)>>, Template)>>]}

\* sanitizeName(name), called on its own
SanitizeName ==
    /\ ret = NoRet
    /\ ret' = [fn |-> "sanitizeName", value |-> sanitizeName(name)]
    /\ UNCHANGED <<name, content, edited, dir>>

\* runner.createMigrationFile(name), the file getting the version v
CreateMigrationFile(v) ==
    LET sanitized == sanitizeName(name)
    IN  /\ ret = NoRet
        /\ IF sanitized = <<>>
           THEN /\ ret' = [fn |-> "createMigrationFile", value |-> "MigrationError"]
                /\ UNCHANGED dir
           ELSE /\ dir' = [exists |-> TRUE,
                           files |-> Append(dir.files, FileOf(v, sanitized, Template))]
                /\ ret' = [fn |-> "createMigrationFile", value |-> "created"]
        /\ UNCHANGED <<name, content, edited>>

\* the runner variables while only helpers are called: a fresh database, no file seen
\* by any runner, legacy runners, nothing running
DatabaseFresh ==
    /\ records = {} /\ effects = {} /\ tableExists = FALSE
    /\ checksums = [v \in Versions |-> NoSum]
    /\ commitCount = [w \in WriteKinds \X Versions |-> 0]
    /\ lockHolder = [i \in LockIds |-> NoSession]
    /\ lockCount = [i \in LockIds |-> 0]

NothingRunning ==
    /\ disk = [v \in Versions |-> "missing"]
    /\ faults = 0
    /\ runner = [p \in Procs |-> NewRunner("legacy", "unset", 0)]
    /\ pool = [p \in Procs |-> [c \in ConnIds |-> "idle"]]
    /\ tx = [p \in Procs |-> NoTx]
    /\ pc = [p \in Procs |-> "idle"]
    /\ op = [p \in Procs |-> "none"]
    /\ dryRun = [p \in Procs |-> FALSE]
    /\ count = [p \in Procs |-> 0]
    /\ queue = [p \in Procs |-> <<>>]
    /\ lockClient = [p \in Procs |-> NoConn]
    /\ client = [p \in Procs |-> NoConn]
    /\ summary = [p \in Procs |-> EmptySummary]
    /\ err = [p \in Procs |-> ""]
    /\ exc = [p \in Procs |-> NoExc]
    /\ log = [p \in Procs |-> <<>>]
    /\ calls = 0
    /\ before = [p \in Procs |-> NoBefore]
    /\ prev = [p \in Procs |-> "none"]

RunnersIdle == DatabaseFresh /\ NothingRunning

runnerVars == <<dbVars, envVars, runner, pool, tx, callVars>>

InitName ==
    /\ RunnersIdle
    /\ name \in Names
    /\ dir \in DirsBefore
    /\ content = NoText /\ edited = NoText /\ ret = NoRet

NextName ==
    \/ SanitizeName /\ UNCHANGED runnerVars
    \/ \E v \in Versions : CreateMigrationFile(v) /\ UNCHANGED runnerVars

SpecName == InitName /\ [][NextName]_vars

\* ----------------------------------------------------- helpers: file text
\* The text of a file, as far as parseMigrationFile tells its parts apart, is a
\* sequence of tokens: the marker "-- migrate:up", the marker "-- migrate:down", a
\* stretch of white space, and two different pieces of other text.
Tokens == {"UP", "DOWN", "ws", "sqlA", "sqlB"}
Contents == UNION { [1..k -> Tokens] : k \in 0..MaxContentLen }

\* content.indexOf(marker): the offset of the first occurrence, or -1
IndexOf(text, marker) ==
    IF \E i \in 1..Len(text) : text[i] = marker
    THEN (CHOOSE i \in 1..Len(text) : text[i] = marker /\ \A j \in 1..(i - 1) : text[j] # marker) - 1
    ELSE 0 - 1

\* content.substring(start, end), offsets counted from 0; the arguments are swapped
\* when start > end
Slice(text, start, end) ==
    LET a == IF start <= end THEN start ELSE end
        b == IF start <= end THEN end ELSE start
    IN  SubSeq(text, a + 1, IF b <= Len(text) THEN b ELSE Len(text))

\* .trim()
RECURSIVE Trim(_)
Trim(text) ==
    IF text = <<>> THEN text
    ELSE IF Head(text) = "ws" THEN Trim(Tail(text))
    ELSE IF text[Len(text)] = "ws" THEN Trim(SubSeq(text, 1, Len(text) - 1))
    ELSE text

\* parseMigrationFile returns null: no up-marker
NoSections == [found |-> FALSE, upSql |-> <<>>, downSql |-> <<>>]

\* else if (downIndex > upIndex): up first, then down
DownAfterUpNever(upIndex, downIndex) == FALSE
DownAfterUp(upIndex, downIndex) == downIndex > upIndex

\* parseMigrationFile(content); a marker is one token long
parseMigrationFile(text) ==
    LET upIndex == IndexOf(text, "UP")
        downIndex == IndexOf(text, "DOWN")
        upStart == upIndex + 1
    IN  IF upIndex = 0 - 1 THEN NoSections
        ELSE IF downIndex = 0 - 1
             THEN [found |-> TRUE, upSql |-> Trim(Slice(text, upStart, Len(text))), downSql |-> <<>>]
        ELSE IF DownAfterUp(upIndex, downIndex)
             THEN [found |-> TRUE,
                   upSql |-> Trim(Slice(text, upStart, downIndex)),
                   downSql |-> Trim(Slice(text, downIndex + 1, Len(text)))]
        ELSE [found |-> TRUE,
              upSql |-> Trim(Slice(text, upStart, Len(text))),
              downSql |-> Trim(Slice(text, downIndex + 1, upIndex))]

\* parseMigrationFile(content), called on its own
ParseMigrationFile ==
    /\ ret = NoRet
    /\ ret' = [fn |-> "parseMigrationFile", value |-> parseMigrationFile(content)]
    /\ UNCHANGED <<name, content, edited, dir>>

InitParse ==
    /\ RunnersIdle
    /\ content \in Contents
    /\ name = NoText /\ edited = NoText /\ dir = NoDir /\ ret = NoRet

NextParse == ParseMigrationFile /\ UNCHANGED runnerVars

SpecParse == InitParse /\ [][NextParse]_vars

\* ------------------------------------------------------ helpers: checksum
\* computeChecksum(sql): the first 16 hex digits of the SHA-256 of sql.trim().  The
\* digest is a value fixed by the trimmed text; the model keeps different texts apart
computeChecksum(sql) == [sha256 |-> Trim(sql)]

\* readMigrationFiles: checksum: computeChecksum(sections.upSql)
\* the checksums of rows written when their files had the up-body they have now
AsApplied(rs) == [v \in Versions |-> IF v \in rs THEN computeChecksum(<<"sqlA">>) ELSE NoSum]

FileChecksumOfText(text) == computeChecksum(text)
FileChecksum(text) == computeChecksum(parseMigrationFile(text).upSql)

\* the texts readMigrationFiles accepts as a migration: an up-marker and, after
\* trimming, a non-empty up-body
IsMigration(text) == parseMigrationFile(text).found /\ parseMigrationFile(text).upSql # <<>>

\* computeChecksum called on two texts
ComputeChecksum ==
    /\ ret = NoRet
    /\ ret' = [fn |-> "computeChecksum", value |-> computeChecksum(content),
               other |-> computeChecksum(edited)]
    /\ UNCHANGED <<name, content, edited, dir>>

\* getStatus: record.checksum !== file.checksum, the record written when the file read
\* content, the file now reading edited
ChecksumMismatch ==
    /\ ret = NoRet
    /\ ret' = [fn |-> "checksumMismatch", value |-> FileChecksum(content) # FileChecksum(edited)]
    /\ UNCHANGED <<name, content, edited, dir>>

InitEdit ==
    /\ RunnersIdle
    /\ content \in {text \in Contents : IsMigration(text)}
    /\ edited \in {text \in Contents : IsMigration(text)}
    /\ name = NoText /\ dir = NoDir /\ ret = NoRet

NextEdit ==
    \/ ComputeChecksum /\ UNCHANGED runnerVars
    \/ ChecksumMismatch /\ UNCHANGED runnerVars

SpecEdit == InitEdit /\ [][NextEdit]_vars

\* ------------------------------------------- validateMigrationSQL
\* A section is a sequence of whitespace-separated words; "NL" is the line
\* break.  "DO" and "$$" are the words of the DO-block pattern, "RAISE" stands
\* for RAISE NOTICE/WARNING/EXCEPTION/INFO/LOG/DEBUG, "BEGIN" for BEGIN, COMMIT
\* or ROLLBACK with an optional semicolon, "sqlA" for any other text.
SqlWords == {"DO", "$$", "NL", "BEGIN", "RAISE", "sqlA"}
Sections == UNION {[1..k -> SqlWords] : k \in 0..MaxSqlLen}
PlainSql == <<"sqlA">>

\* sql.trim() is empty: the section holds nothing but white space
Blank(sql) == \A i \in 1..Len(sql) : sql[i] = "NL"

\* the first position from i on that is not white space (\s+)
SkipSpace(sql, i) ==
    IF \E j \in i..Len(sql) : sql[j] # "NL"
    THEN CHOOSE j \in i..Len(sql) : sql[j] # "NL" /\ \A k \in i..(j - 1) : sql[k] = "NL"
    ELSE Len(sql) + 1

\* the first "$$" after position i, 0 when there is none ([\s\S]*?\$\$)
ClosingAfter(sql, i) ==
    IF \E j \in (i + 1)..Len(sql) : sql[j] = "$$"
    THEN CHOOSE j \in (i + 1)..Len(sql) : sql[j] = "$$" /\ \A k \in (i + 1)..(j - 1) : sql[k] # "$$"
    ELSE 0

\* a match of /DO\s+\$\$[\s\S]*?\$\$/ starts at the head of sql: where it ends, or 0
DoBlockEnd(sql) ==
    IF sql # <<>> /\ Head(sql) = "DO"
        /\ SkipSpace(sql, 2) <= Len(sql) /\ sql[SkipSpace(sql, 2)] = "$$"
    THEN ClosingAfter(sql, SkipSpace(sql, 2))
    ELSE 0

\* sql.replace(/DO\s+\$\$[\s\S]*?\$\$/gi, ''): every match, leftmost first, is cut out
RECURSIVE WithoutDoBlocks(_)
WithoutDoBlocks(sql) ==
    IF sql = <<>> THEN <<>>
    ELSE IF DoBlockEnd(sql) # 0
         THEN WithoutDoBlocks(SubSeq(sql, DoBlockEnd(sql) + 1, Len(sql)))
         ELSE <<Head(sql)>> \o WithoutDoBlocks(Tail(sql))

\* sql.split('\n')
RECURSIVE SplitLines(_)
SplitLines(sql) ==
    IF \E i \in 1..Len(sql) : sql[i] = "NL"
    THEN LET i == CHOOSE j \in 1..Len(sql) : sql[j] = "NL" /\ \A k \in 1..(j - 1) : sql[k] # "NL"
         IN <<SubSeq(sql, 1, i - 1)>> \o SplitLines(SubSeq(sql, i + 1, Len(sql)))
    ELSE <<sql>>

\* /^RAISE\s+(NOTICE|WARNING|EXCEPTION|INFO|LOG|DEBUG)\b/ on the trimmed line
IsRaiseLine(line) == line # <<>> /\ Head(line) = "RAISE"
\* /^(BEGIN|COMMIT|ROLLBACK)\s*;?$/ on the trimmed line
IsTxLine(line) == line = <<"BEGIN">>

Warning(rule, line) == [rule |-> rule, line |-> line]
IsHit(w) == w.line # 0

\* lines.forEach((line, idx) => ... warnings.push({ ..., line: idx + 1 }))
RaiseWarnings(lines) ==
    SelectSeq([i \in 1..Len(lines) |->
                   Warning("raise", IF IsRaiseLine(lines[i]) THEN i ELSE 0)], IsHit)
TxWarnings(lines) ==
    SelectSeq([i \in 1..Len(lines) |->
                   Warning("tx", IF IsTxLine(lines[i]) THEN i ELSE 0)], IsHit)

\* the warning without a line of an empty section
EmptyWarnings(sql) == IF Blank(sql) THEN <<Warning("empty", 0)>> ELSE <<>>

UpWarnings(upSql) ==
    EmptyWarnings(upSql)
        \o (IF upSql = <<>> THEN <<>>
            ELSE RaiseWarnings(SplitLines(WithoutDoBlocks(upSql)))
                     \o TxWarnings(SplitLines(upSql)))

DownWarnings(downSql) ==
    EmptyWarnings(downSql)
        \o (IF downSql = <<>> THEN <<>>
            ELSE TxWarnings(SplitLines(downSql))
                     \o RaiseWarnings(SplitLines(WithoutDoBlocks(downSql))))

validateMigrationSQL(upSql, downSql) == [up |-> UpWarnings(upSql), down |-> DownWarnings(downSql)]

\* the section under study is passed as the UP or as the DOWN section, next to
\* a plain statement as the other section
ValidateMigrationSQL(section) ==
    /\ ret = NoRet
    /\ ret' = [fn |-> "validateMigrationSQL", section |-> section,
               value |-> IF section = "up"
                         THEN validateMigrationSQL(content, PlainSql).up
                         ELSE validateMigrationSQL(PlainSql, content).down]
    /\ UNCHANGED <<name, content, edited, dir>>

InitValidate ==
    /\ RunnersIdle
    /\ content \in Sections
    /\ name = NoText /\ edited = NoText /\ dir = NoDir /\ ret = NoRet

NextValidate ==
    \/ ValidateMigrationSQL("up") /\ UNCHANGED runnerVars
    \/ ValidateMigrationSQL("down") /\ UNCHANGED runnerVars

SpecValidate == InitValidate /\ [][NextValidate]_vars

\* ------------------------------------------------------------ runners
TypeOK ==
    /\ tableExists \in BOOLEAN
    /\ records \subseteq Versions
    /\ \A v \in Versions : (checksums[v] = NoSum) = (v \notin records)
    /\ effects \subseteq Versions
    /\ faults \in 0..MaxFaults
    /\ \A p \in Procs : pc[p] \in {"idle", "diff", "lock_connect", "try_lock",
                                   "loop", "begin", "body", "record", "commit", "catch",
                                   "finally", "done"}
    /\ \A p \in Procs : \A c \in ConnIds : pool[p][c] \in {"idle", "out"}

Init ==
    /\ records \in SUBSET Versions
    /\ checksums = AsApplied(records)
    /\ effects = records
    /\ tableExists = (records # {})
    /\ commitCount = [w \in WriteKinds \X Versions |->
                         IF w[1] \in {"up", "ins"} /\ w[2] \in records THEN 1 ELSE 0]
    /\ lockHolder = [i \in LockIds |-> NoSession]
    /\ lockCount = [i \in LockIds |-> 0]
    /\ disk \in [Versions -> FileKinds]
    /\ faults = 0
    /\ runner \in [Procs -> Runners]
    /\ \A p, q \in Procs : p < q => RunnerRank(runner[p]) <= RunnerRank(runner[q])
    /\ pool = [p \in Procs |-> [c \in ConnIds |-> "idle"]]
    /\ tx = [p \in Procs |-> NoTx]
    /\ pc = [p \in Procs |-> "idle"]
    /\ op = [p \in Procs |-> "none"]
    /\ dryRun = [p \in Procs |-> FALSE]
    /\ count = [p \in Procs |-> 0]
    /\ queue = [p \in Procs |-> <<>>]
    /\ lockClient = [p \in Procs |-> NoConn]
    /\ client = [p \in Procs |-> NoConn]
    /\ summary = [p \in Procs |-> EmptySummary]
    /\ err = [p \in Procs |-> ""]
    /\ exc = [p \in Procs |-> NoExc]
    /\ log = [p \in Procs |-> <<>>]
    /\ calls = 0
    /\ before = [p \in Procs |-> NoBefore]
    /\ prev = [p \in Procs |-> "none"]
    /\ HelpersIdle

\* ------------------------------------------------------------ environment
\* the environment rejects the statement or checkout at hand
Fault == faults < MaxFaults /\ faults' = faults + 1
NoFault == faults' = faults

\* pool.query / pool.connect find no free connection (connectionTimeoutMillis)
PoolBusy(p) == IdleConns(p) = {}

Logged(p, es) == log' = [log EXCEPT ![p] = @ \o es]

\* an idle pooled connection is closed (idleTimeoutMillis); the server frees the
\* session's advisory locks
SessionEnd(p, c) ==
    /\ pool[p][c] = "idle"
    /\ HoldsLock(p, c)
    /\ lockHolder' = [i \in LockIds |-> IF lockHolder[i] = <<p, c>> THEN NoSession ELSE lockHolder[i]]
    /\ lockCount' = [i \in LockIds |-> IF lockHolder[i] = <<p, c>> THEN 0 ELSE lockCount[i]]
    /\ UNCHANGED <<tableExists, records, checksums, effects, commitCount, envVars, runner, helperVars, pool, tx,
                   callVars>>

\* --------------------------------------------------------------- database
\* the writes ws become visible to every session, atomically
\* the text of the file of a version, by its kind: what readMigrationFiles reads
FileText(kind) ==
    CASE kind = "full" -> <<"UP", "sqlA", "DOWN", "sqlB">>
      [] kind = "nodown" -> <<"UP", "sqlA">>
      [] OTHER -> NoText

\* the checksum column: INSERT stores the checksum of the file as it was read,
\* DELETE takes the row away with its checksum
ApplyChecksums(cs, ws) ==
    [v \in Versions |->
        IF <<"del", v>> \in ws THEN NoSum
        ELSE IF <<"ins", v>> \in ws THEN FileChecksum(FileText(disk[v]))
        ELSE cs[v]]

MakeVisible(ws) ==
    /\ records' = ApplyRecords(records, ws)
    /\ checksums' = ApplyChecksums(checksums, ws)
    /\ effects' = ApplyEffects(effects, ws)
    /\ commitCount' = [w \in WriteKinds \X Versions |->
                          commitCount[w] + (IF w \in ws THEN 1 ELSE 0)]

\* one write of a statement: into the open transaction, or committed at once
\* when the connection has no transaction open (autocommit)
Write(p, w) ==
    IF tx[p].active
    THEN /\ tx' = [tx EXCEPT ![p].writes = @ \cup {w}]
         /\ UNCHANGED <<records, checksums, effects, commitCount>>
    ELSE /\ MakeVisible({w})
         /\ UNCHANGED tx

NoWrite == UNCHANGED <<tx, records, checksums, effects, commitCount>>

\* another open transaction holds the row of version v (an uncommitted INSERT or
\* DELETE of it): the statement waits for that transaction to end
RowHeldByOther(p, v, kinds) ==
    \E q \in Procs \ {p} : tx[q].active /\ \E k \in kinds : <<k, v>> \in tx[q].writes

\* pg_try_advisory_lock(id) on session s: session-level and re-entrant
TryAdvisoryLock(s, id) == lockHolder[id] \in {NoSession, s}

\* pg_advisory_unlock(id) on session s
AdvisoryUnlock(s, id) ==
    IF lockHolder[id] = s
    THEN /\ lockCount' = [lockCount EXCEPT ![id] = @ - 1]
         /\ lockHolder' = [lockHolder EXCEPT ![id] = IF lockCount[id] = 1 THEN NoSession ELSE s]
    ELSE UNCHANGED <<lockHolder, lockCount>>

\* ------------------------------------------------------------------ calls
\* the finally block of the outer try: with a lock connection there is an unlock to
\* await, without one the call returns or rethrows at once
Leave(p) == IF lockClient[p] # NoConn THEN "finally" ELSE "done"

\* the loop ended (every item done, or break after a failed item)
AfterBatch(p) == Leave(p)

\* an exception left the loop body: it passes through the same finally block
AfterThrowMissesFinally(p) == "done"
AfterThrow(p) == Leave(p)

\* a statement of the inner try block throws: the catch block of the item is next
ThrownIgnored(p) == "commit"
Thrown(p) == "catch"

\* the database as the call finds it
Snapshot(p) ==
    before' = [before EXCEPT ![p] =
                  [tableExists |-> tableExists, records |-> records, effects |-> effects,
                   checksums |-> checksums]]

\* await this.ensureMigrationsTable(): CREATE TABLE IF NOT EXISTS through pool.query
EnsureTable(p) ==
    \/ /\ ~PoolBusy(p)
       /\ NoFault
       /\ tableExists' = TRUE
       /\ pc' = [pc EXCEPT ![p] = "diff"]
       /\ Logged(p, <<Entry(0, "CREATE_TABLE", 0, "ok")>>)
       /\ UNCHANGED exc
    \/ /\ IF PoolBusy(p) THEN NoFault ELSE Fault
       /\ exc' = [exc EXCEPT ![p] = ErrorOf(DbError("CREATE_TABLE"))]
       /\ pc' = [pc EXCEPT ![p] = "done"]
       /\ Logged(p, <<Entry(0, "CREATE_TABLE", 0, DbError("CREATE_TABLE"))>>)
       /\ UNCHANGED tableExists

\* runner.migrate(options), up to the end of its first await
Migrate(p, dry) ==
    /\ pc[p] = "idle"
    /\ calls < MaxCalls
    /\ calls' = calls + 1
    /\ op' = [op EXCEPT ![p] = "migrate"]
    /\ dryRun' = [dryRun EXCEPT ![p] = dry]
    /\ Snapshot(p)
    /\ EnsureTable(p)
    /\ UNCHANGED <<records, checksums, effects, commitCount, lockHolder, lockCount, disk, runner, helperVars, pool,
                   tx, count, queue, lockClient, client, summary, err, prev>>

\* runner.rollback(count, options), up to the end of its first await
Rollback(p, n, dry) ==
    /\ pc[p] = "idle"
    /\ calls < MaxCalls
    /\ calls' = calls + 1
    /\ op' = [op EXCEPT ![p] = "rollback"]
    /\ dryRun' = [dryRun EXCEPT ![p] = dry]
    /\ count' = [count EXCEPT ![p] = n]
    /\ Snapshot(p)
    /\ EnsureTable(p)
    /\ UNCHANGED <<records, checksums, effects, commitCount, lockHolder, lockCount, disk, runner, helperVars, pool,
                   tx, queue, lockClient, client, summary, err, prev>>

\* files.filter(f => !appliedVersions.has(f.version))
PendingOfAll(files, applied) == files
PendingOfNewerOnly(files, applied) ==
    SelectSeq(files, LAMBDA f : \A a \in applied : f.version > a)
PendingOfOrEdited(files, applied) ==
    SelectSeq(files, LAMBDA f : \/ f.version \notin applied
                                \/ checksums[f.version] # FileChecksum(FileText(f.kind)))
PendingOf(files, applied) == SelectSeq(files, LAMBDA f : f.version \notin applied)

\* where migrate() goes once pending is known
AfterPendingAlwaysLocks(p, pending) == IF runner[p].useLock THEN "lock_connect" ELSE "loop"
AfterPending(p, pending) ==
    IF pending = <<>> THEN "done"
    ELSE IF runner[p].useLock THEN "lock_connect" ELSE "loop"

\* the two pool.query statements of getAppliedMigrations(), both accepted
AppliedQueryLog == <<Entry(0, "CREATE_TABLE", 0, "ok"), Entry(0, "SELECT", 0, "ok")>>

\* getAppliedMigrations() throws
AppliedQueryFails(p) ==
    /\ IF PoolBusy(p) THEN NoFault ELSE Fault
    /\ exc' = [exc EXCEPT ![p] = ErrorOf(DbError("SELECT"))]
    /\ pc' = [pc EXCEPT ![p] = "done"]
    /\ Logged(p, <<Entry(0, "CREATE_TABLE", 0, "ok"), Entry(0, "SELECT", 0, DbError("SELECT"))>>)

\* migrate(): const pending = await this.getPendingMigrations(), and the early
\* return when nothing is pending
GetPending(p) ==
    /\ pc[p] = "diff"
    /\ op[p] = "migrate"
    /\ \/ /\ ~PoolBusy(p)
          /\ NoFault
          /\ LET pending == PendingOf(readMigrationFiles, records)
             IN  /\ queue' = [queue EXCEPT ![p] = pending]
                 /\ summary' = [summary EXCEPT ![p].total_pending = Len(pending)]
                 /\ pc' = [pc EXCEPT ![p] = AfterPending(p, pending)]
          /\ Logged(p, AppliedQueryLog)
          /\ UNCHANGED exc
       \/ /\ AppliedQueryFails(p)
          /\ UNCHANGED <<queue, summary>>
    /\ UNCHANGED <<dbVars, disk, runner, helperVars, pool, tx, op, dryRun, count, lockClient, client,
                   err, calls, before, prev>>

\* applied.slice(-count).reverse()
ToRollbackOldestFirst(applied, n) == SliceFrom(applied, 0 - n)
ToRollbackLastOnly(applied, n) == Reverse(SliceFrom(applied, 0 - 1))
ToRollback(applied, n) == Reverse(SliceFrom(applied, 0 - n))

\* where rollback() goes once toRollback is known
AfterApplied(p) == IF runner[p].useLock THEN "lock_connect" ELSE "loop"

\* rollback(): applied = await this.getAppliedMigrations(); files; toRollback
GetApplied(p) ==
    /\ pc[p] = "diff"
    /\ op[p] = "rollback"
    /\ \/ /\ ~PoolBusy(p)
          /\ NoFault
          /\ LET vs == ToRollback(SortAsc(records), count[p])
             IN  queue' = [queue EXCEPT ![p] =
                              [i \in 1..Len(vs) |-> [version |-> vs[i], kind |-> disk[vs[i]]]]]
          /\ pc' = [pc EXCEPT ![p] = AfterApplied(p)]
          /\ Logged(p, AppliedQueryLog)
          /\ UNCHANGED exc
       \/ /\ AppliedQueryFails(p)
          /\ UNCHANGED queue
    /\ UNCHANGED <<dbVars, disk, runner, helperVars, pool, tx, op, dryRun, count, lockClient, client,
                   summary, err, calls, before, prev>>

\* lockClient = await this.pool.connect()
LockConnect(p) ==
    /\ pc[p] = "lock_connect"
    /\ \/ /\ NoFault
          /\ \E c \in Connectable(p) :
                /\ pool' = [pool EXCEPT ![p][c] = "out"]
                /\ lockClient' = [lockClient EXCEPT ![p] = c]
                /\ Logged(p, <<Entry(c, "connect", 0, "ok")>>)
          /\ pc' = [pc EXCEPT ![p] = "try_lock"]
          /\ UNCHANGED exc
       \/ /\ IF PoolBusy(p) THEN NoFault ELSE Fault
          /\ exc' = [exc EXCEPT ![p] = ErrorOf("connect")]
          /\ pc' = [pc EXCEPT ![p] = "done"]
          /\ Logged(p, <<Entry(0, "connect", 0, "connect")>>)
          /\ UNCHANGED <<pool, lockClient>>
    /\ UNCHANGED <<dbVars, disk, runner, helperVars, tx, op, dryRun, count, queue, client, summary, err,
                   calls, before, prev>>

\* acquireLock: if (!acquired) throw new MigrationLockError(lockId)
LockRefusedNever(acquired) == FALSE
LockRefused(acquired) == ~acquired

\* acquireLock does not wait and does not retry: the refusal ends the call
AfterRefusalRetries(p) == "try_lock"
AfterRefusal(p) == "done"

\* await acquireLock(lockClient, this.lockId, this.logger): it is awaited before the
\* try block, so when it throws nothing releases lockClient
TryLock(p) ==
    LET id == runner[p].lockId
        s == <<p, lockClient[p]>>
        acquired == TryAdvisoryLock(s, id)
    IN  /\ pc[p] = "try_lock"
        /\ \/ /\ NoFault
              /\ IF LockRefused(acquired)
                 THEN /\ exc' = [exc EXCEPT ![p] = MigrationLockError(id)]
                      /\ pc' = [pc EXCEPT ![p] = AfterRefusal(p)]
                      /\ UNCHANGED <<lockHolder, lockCount>>
                 ELSE /\ lockHolder' = [lockHolder EXCEPT ![id] = s]
                      /\ lockCount' = [lockCount EXCEPT ![id] = @ + 1]
                      /\ pc' = [pc EXCEPT ![p] = "loop"]
                      /\ UNCHANGED exc
              /\ Logged(p, <<Entry(lockClient[p], "TRY_LOCK", id,
                                   IF acquired THEN "ok" ELSE "refused")>>)
           \/ /\ Fault
              /\ exc' = [exc EXCEPT ![p] = ErrorOf(DbError("TRY_LOCK"))]
              /\ pc' = [pc EXCEPT ![p] = "done"]
              /\ Logged(p, <<Entry(lockClient[p], "TRY_LOCK", id, DbError("TRY_LOCK"))>>)
              /\ UNCHANGED <<lockHolder, lockCount>>
        /\ UNCHANGED <<tableExists, records, checksums, effects, commitCount, disk, runner, helperVars, pool, tx, op,
                       dryRun, count, queue, lockClient, client, summary, err, calls, before, prev>>

\* ------------------------------------------------------------------- loop
\* summary.applied.push(result); summary.total_applied++  (rolledBack likewise)
PushedNothing(sm, v) == sm
PushedNotCounted(sm, v) == [sm EXCEPT !.list = Append(@, v)]
Pushed(sm, v) == [sm EXCEPT !.list = Append(@, v), !.total = @ + 1]

\* summary.failed = {version, error: error.message}
FailedGeneric(sm, v, msg) == [sm EXCEPT !.failed = [version |-> v, error |-> "failed"]]
Failed(sm, v, msg) == [sm EXCEPT !.failed = [version |-> v, error |-> msg]]

\* if (dryRun) { ... continue }
IsDryRunNever(p) == FALSE
IsDryRun(p) == dryRun[p]

\* rollback(): if (!file) ...; if (!file.downSql) ...: the record can be rolled back
\* only with its file present and a DOWN section in it
CanRollbackIfPresent(kind) == kind # "missing"
CanRollback(kind) == kind = "full"

\* the messages of the errors rollback() raises for a record without a usable file
FileError(kind) == IF kind = "missing" THEN "file not found" ELSE "no down section"

\* the messages a dry-run rollback() reports for such a record
DryRunFileError(kind) ==
    IF kind = "missing" THEN "file not found (dry run)" ELSE "no down section (dry run)"

\* a dry-run rollback() stops at a record that cannot be rolled back
DryRunNeverStops(p, item) == FALSE
DryRunStops(p, item) == op[p] = "rollback" /\ ~CanRollback(item.kind)

\* the dry-run branch of the loop body, for the head of the queue
DryRunItem(p) ==
    LET item == Head(queue[p])
        stop == DryRunStops(p, item)
    IN  /\ pc[p] = "loop"
        /\ queue[p] # <<>>
        /\ IsDryRun(p)
        /\ IF stop
           THEN /\ summary' = [summary EXCEPT ![p] = Failed(@, item.version, DryRunFileError(item.kind))]
                /\ pc' = [pc EXCEPT ![p] = AfterBatch(p)]
                /\ UNCHANGED queue
           ELSE /\ summary' = [summary EXCEPT ![p] = Pushed(@, item.version)]
                /\ queue' = [queue EXCEPT ![p] = Tail(@)]
                /\ UNCHANGED pc
        /\ UNCHANGED <<dbVars, envVars, runner, helperVars, pool, tx, op, dryRun, count, lockClient,
                       client, err, exc, log, calls, before, prev>>

\* const client = await this.pool.connect(), for the head of the queue
ItemConnect(p) ==
    LET v == Head(queue[p]).version
    IN  /\ pc[p] = "loop"
        /\ queue[p] # <<>>
        /\ ~IsDryRun(p)
        /\ \/ /\ NoFault
              /\ \E c \in Connectable(p) :
                    /\ pool' = [pool EXCEPT ![p][c] = "out"]
                    /\ client' = [client EXCEPT ![p] = c]
                    /\ Logged(p, <<Entry(c, "connect", v, "ok")>>)
              /\ pc' = [pc EXCEPT ![p] = "begin"]
              /\ UNCHANGED exc
           \/ /\ IF PoolBusy(p) THEN NoFault ELSE Fault
              /\ exc' = [exc EXCEPT ![p] = ErrorOf("connect")]
              /\ pc' = [pc EXCEPT ![p] = AfterThrow(p)]
              /\ Logged(p, <<Entry(0, "connect", v, "connect")>>)
              /\ UNCHANGED <<pool, client>>
        /\ UNCHANGED <<dbVars, disk, runner, helperVars, tx, op, dryRun, count, queue, lockClient,
                       summary, err, calls, before, prev>>

\* the for loop ends: every item was processed
LoopExit(p) ==
    /\ pc[p] = "loop"
    /\ queue[p] = <<>>
    /\ pc' = [pc EXCEPT ![p] = AfterBatch(p)]
    /\ UNCHANGED <<dbVars, envVars, runner, helperVars, pool, tx, op, dryRun, count, queue, lockClient,
                   client, summary, err, exc, log, calls, before, prev>>

\* rollback(): if (!file) throw ...; if (!file.downSql) throw ..., inside the try
FileCheck(p) ==
    LET item == Head(queue[p])
    IN  /\ pc[p] = "begin"
        /\ op[p] = "rollback"
        /\ ~CanRollback(item.kind)
        /\ err' = [err EXCEPT ![p] = FileError(item.kind)]
        /\ pc' = [pc EXCEPT ![p] = Thrown(p)]
        /\ UNCHANGED <<dbVars, envVars, runner, helperVars, pool, tx, op, dryRun, count, queue,
                       lockClient, client, summary, exc, log, calls, before, prev>>

\* the transaction state of the connection after an accepted BEGIN
TxBeginNone(p) == tx
TxBegin(p) == [tx EXCEPT ![p].active = TRUE]

\* await client.query('BEGIN')
Begin(p) ==
    LET item == Head(queue[p])
    IN  /\ pc[p] = "begin"
        /\ op[p] = "migrate" \/ CanRollback(item.kind)
        /\ \/ /\ NoFault
              /\ tx' = TxBegin(p)
              /\ pc' = [pc EXCEPT ![p] = "body"]
              /\ Logged(p, <<Entry(client[p], "BEGIN", item.version, "ok")>>)
              /\ UNCHANGED err
           \/ /\ Fault
              /\ err' = [err EXCEPT ![p] = DbError("BEGIN")]
              /\ pc' = [pc EXCEPT ![p] = Thrown(p)]
              /\ Logged(p, <<Entry(client[p], "BEGIN", item.version, DbError("BEGIN"))>>)
              /\ UNCHANGED tx
        /\ UNCHANGED <<dbVars, disk, runner, helperVars, pool, op, dryRun, count, queue, lockClient,
                       client, summary, exc, calls, before, prev>>

\* await client.query(migration.upSql) / await client.query(file.downSql)
Body(p) ==
    LET item == Head(queue[p])
        stmt == IF op[p] = "migrate" THEN "UP" ELSE "DOWN"
    IN  /\ pc[p] = "body"
        /\ \/ /\ NoFault
              /\ Write(p, <<IF op[p] = "migrate" THEN "up" ELSE "down", item.version>>)
              /\ pc' = [pc EXCEPT ![p] = "record"]
              /\ Logged(p, <<Entry(client[p], stmt, item.version, "ok")>>)
              /\ UNCHANGED err
           \/ /\ Fault
              /\ err' = [err EXCEPT ![p] = DbError(stmt)]
              /\ pc' = [pc EXCEPT ![p] = Thrown(p)]
              /\ Logged(p, <<Entry(client[p], stmt, item.version, DbError(stmt))>>)
              /\ NoWrite
        /\ UNCHANGED <<tableExists, lockHolder, lockCount, disk, runner, helperVars, pool, op, dryRun,
                       count, queue, lockClient, client, summary, exc, calls, before, prev>>

\* the rows of the tracking table the session of p sees
Visible(p) == ApplyRecords(records, tx[p].writes)

\* version VARCHAR(14) NOT NULL UNIQUE: an INSERT of a version the session sees fails
UniqueNeverViolated(p, v) == FALSE
UniqueViolated(p, v) == v \in Visible(p)

\* await client.query(`INSERT INTO ${this.tableName} ...`)
Insert(p) ==
    LET v == Head(queue[p]).version
        res == IF UniqueViolated(p, v) THEN DbError("unique_violation") ELSE "ok"
    IN  /\ pc[p] = "record"
        /\ op[p] = "migrate"
        /\ ~RowHeldByOther(p, v, {"ins", "del"})
        /\ \/ /\ NoFault
              /\ IF res = "ok"
                 THEN /\ Write(p, <<"ins", v>>)
                      /\ pc' = [pc EXCEPT ![p] = "commit"]
                      /\ UNCHANGED err
                 ELSE /\ err' = [err EXCEPT ![p] = res]
                      /\ pc' = [pc EXCEPT ![p] = Thrown(p)]
                      /\ NoWrite
              /\ Logged(p, <<Entry(client[p], "INSERT", v, res)>>)
           \/ /\ Fault
              /\ err' = [err EXCEPT ![p] = DbError("INSERT")]
              /\ pc' = [pc EXCEPT ![p] = Thrown(p)]
              /\ Logged(p, <<Entry(client[p], "INSERT", v, DbError("INSERT"))>>)
              /\ NoWrite
        /\ UNCHANGED <<tableExists, lockHolder, lockCount, disk, runner, helperVars, pool, op, dryRun,
                       count, queue, lockClient, client, summary, exc, calls, before, prev>>

\* await client.query(`DELETE FROM ${this.tableName} WHERE version = $1`)
Delete(p) ==
    LET v == Head(queue[p]).version
    IN  /\ pc[p] = "record"
        /\ op[p] = "rollback"
        /\ ~RowHeldByOther(p, v, {"del"})
        /\ \/ /\ NoFault
              /\ IF v \in Visible(p) THEN Write(p, <<"del", v>>) ELSE NoWrite
              /\ pc' = [pc EXCEPT ![p] = "commit"]
              /\ Logged(p, <<Entry(client[p], "DELETE", v, "ok")>>)
              /\ UNCHANGED err
           \/ /\ Fault
              /\ err' = [err EXCEPT ![p] = DbError("DELETE")]
              /\ pc' = [pc EXCEPT ![p] = Thrown(p)]
              /\ Logged(p, <<Entry(client[p], "DELETE", v, DbError("DELETE"))>>)
              /\ NoWrite
        /\ UNCHANGED <<tableExists, lockHolder, lockCount, disk, runner, helperVars, pool, op, dryRun,
                       count, queue, lockClient, client, summary, exc, calls, before, prev>>

\* finally { client.release() }, after the statements es of the same step
ReleaseClientLeaks(p, es) ==
    /\ UNCHANGED pool
    /\ client' = [client EXCEPT ![p] = NoConn]
    /\ Logged(p, es)
ReleaseClient(p, es) ==
    /\ pool' = [pool EXCEPT ![p][client[p]] = "idle"]
    /\ client' = [client EXCEPT ![p] = NoConn]
    /\ Logged(p, es \o <<Entry(client[p], "release", es[Len(es)].v, "ok")>>)

\* await client.query('COMMIT'); the result is pushed and the client released
Commit(p) ==
    LET v == Head(queue[p]).version
    IN  /\ pc[p] = "commit"
        /\ \/ /\ NoFault
              /\ MakeVisible(tx[p].writes)
              /\ tx' = [tx EXCEPT ![p] = NoTx]
              /\ summary' = [summary EXCEPT ![p] = Pushed(@, v)]
              /\ queue' = [queue EXCEPT ![p] = Tail(@)]
              /\ ReleaseClient(p, <<Entry(client[p], "COMMIT", v, "ok")>>)
              /\ pc' = [pc EXCEPT ![p] = "loop"]
              /\ UNCHANGED err
           \/ /\ Fault
              /\ err' = [err EXCEPT ![p] = DbError("COMMIT")]
              /\ Logged(p, <<Entry(client[p], "COMMIT", v, DbError("COMMIT"))>>)
              /\ pc' = [pc EXCEPT ![p] = Thrown(p)]
              /\ UNCHANGED <<records, checksums, effects, commitCount, tx, summary, queue, pool, client>>
        /\ UNCHANGED <<tableExists, lockHolder, lockCount, disk, runner, helperVars, op, dryRun, count,
                       lockClient, exc, calls, before, prev>>

\* catch (error) { await client.query('ROLLBACK'); summary.failed = ...; break }
\* finally { client.release() }.  A ROLLBACK that is rejected throws out of the catch
\* block; the connection it was sent on has lost its transaction either way.
Catch(p) ==
    LET v == Head(queue[p]).version
    IN  /\ pc[p] = "catch"
        /\ tx' = [tx EXCEPT ![p] = NoTx]
        /\ \/ /\ NoFault
              /\ summary' = [summary EXCEPT ![p] = Failed(@, v, err[p])]
              /\ ReleaseClient(p, <<Entry(client[p], "ROLLBACK", v, "ok")>>)
              /\ pc' = [pc EXCEPT ![p] = AfterBatch(p)]
              /\ UNCHANGED exc
           \/ /\ Fault
              /\ exc' = [exc EXCEPT ![p] = ErrorOf(DbError("ROLLBACK"))]
              /\ ReleaseClient(p, <<Entry(client[p], "ROLLBACK", v, DbError("ROLLBACK"))>>)
              /\ pc' = [pc EXCEPT ![p] = AfterThrow(p)]
              /\ UNCHANGED summary
        /\ UNCHANGED <<dbVars, disk, runner, helperVars, op, dryRun, count, queue, lockClient, err, calls, before, prev>>

\* releaseLock: catch (error) { logger?.warn(...) }, the error is not rethrown
UnlockFailureThrown(p) == [exc EXCEPT ![p] = ErrorOf(DbError("UNLOCK"))]
UnlockFailureSwallowed(p) == exc

\* finally { if (lockClient) { await releaseLock(...); lockClient.release() } }
Finally(p) ==
    LET c == lockClient[p]
        id == runner[p].lockId
    IN  /\ pc[p] = "finally"
        /\ pc' = [pc EXCEPT ![p] = "done"]
        /\ \/ /\ NoFault
              /\ AdvisoryUnlock(<<p, c>>, id)
              /\ Logged(p, <<Entry(c, "UNLOCK", id, "ok"), Entry(c, "release", 0, "ok")>>)
              /\ UNCHANGED exc
           \/ /\ Fault
              /\ exc' = UnlockFailureSwallowed(p)
              /\ UNCHANGED <<lockHolder, lockCount>>
              /\ Logged(p, <<Entry(c, "UNLOCK", id, DbError("UNLOCK")),
                             Entry(c, "release", 0, "ok")>>)
        /\ pool' = [pool EXCEPT ![p][c] = "idle"]
        /\ UNCHANGED <<tableExists, records, checksums, effects, commitCount, disk, runner, helperVars, tx, op, dryRun,
                       count, queue, lockClient, client, summary, err, calls, before, prev>>

\* how the call of p ended: a real migrate() that returned a summary without a failed
\* item ("migrated"), or anything else
Outcome(p) ==
    IF op[p] = "migrate" /\ ~dryRun[p] /\ exc[p] = NoExc /\ summary[p].failed = NoFail
    THEN "migrated" ELSE "other"

\* the caller has the summary or the exception; the process is free for its next call
Return(p) ==
    /\ pc[p] = "done"
    /\ pc' = [pc EXCEPT ![p] = "idle"]
    /\ op' = [op EXCEPT ![p] = "none"]
    /\ dryRun' = [dryRun EXCEPT ![p] = FALSE]
    /\ count' = [count EXCEPT ![p] = 0]
    /\ queue' = [queue EXCEPT ![p] = <<>>]
    /\ lockClient' = [lockClient EXCEPT ![p] = NoConn]
    /\ client' = [client EXCEPT ![p] = NoConn]
    /\ summary' = [summary EXCEPT ![p] = EmptySummary]
    /\ err' = [err EXCEPT ![p] = ""]
    /\ exc' = [exc EXCEPT ![p] = NoExc]
    /\ log' = [log EXCEPT ![p] = <<>>]
    /\ before' = [before EXCEPT ![p] = NoBefore]
    /\ prev' = [prev EXCEPT ![p] = Outcome(p)]
    /\ UNCHANGED <<dbVars, envVars, runner, helperVars, pool, tx, calls>>

\* ------------------------------------------------------------- scheduling
\* positions whose next step touches only the process's own pool, its own session or
\* its own variables: no other process can observe when it happens, so it is taken
\* before any other process moves
LocalPcs == {"lock_connect", "loop", "begin", "body", "done"}
Turn(p) == \A q \in Procs \ {p} : pc[q] \notin LocalPcs

\* processes with the same runner are interchangeable: of these, the one with the least
\* number makes the first call
MayCall(p) == calls > 0 \/ \A q \in Procs : q < p => runner[q] # runner[p]

Next ==
    \/ \E p \in Procs, c \in ConnIds : Turn(0) /\ SessionEnd(p, c)
    \/ \E p \in Procs, dry \in BOOLEAN : Turn(p) /\ MayCall(p) /\ Migrate(p, dry)
    \/ \E p \in Procs, n \in 0..MaxCount, dry \in BOOLEAN : Turn(p) /\ MayCall(p) /\ Rollback(p, n, dry)
    \/ \E p \in Procs : Turn(p) /\ GetPending(p)
    \/ \E p \in Procs : Turn(p) /\ GetApplied(p)
    \/ \E p \in Procs : Turn(p) /\ LockConnect(p)
    \/ \E p \in Procs : Turn(p) /\ TryLock(p)
    \/ \E p \in Procs : Turn(p) /\ DryRunItem(p)
    \/ \E p \in Procs : Turn(p) /\ ItemConnect(p)
    \/ \E p \in Procs : Turn(p) /\ LoopExit(p)
    \/ \E p \in Procs : Turn(p) /\ FileCheck(p)
    \/ \E p \in Procs : Turn(p) /\ Begin(p)
    \/ \E p \in Procs : Turn(p) /\ Body(p)
    \/ \E p \in Procs : Turn(p) /\ Insert(p)
    \/ \E p \in Procs : Turn(p) /\ Delete(p)
    \/ \E p \in Procs : Turn(p) /\ Commit(p)
    \/ \E p \in Procs : Turn(p) /\ Catch(p)
    \/ \E p \in Procs : Turn(p) /\ Finally(p)
    \/ \E p \in Procs : Turn(p) /\ Return(p)

Spec == Init /\ [][Next]_vars

\* ------------------------------------------------- one process on its own
\* the calls of a single process, one after the other: what a call does by itself,
\* with counts up to MaxCountSolo
Solo == 1
InitSolo == Init /\ \A p \in Procs : runner[p] = runner[Solo]

NextSolo ==
    \/ \E c \in ConnIds : SessionEnd(Solo, c)
    \/ \E dry \in BOOLEAN : Migrate(Solo, dry)
    \/ \E n \in 0..MaxCountSolo, dry \in BOOLEAN : Rollback(Solo, n, dry)
    \/ GetPending(Solo)
    \/ GetApplied(Solo)
    \/ LockConnect(Solo)
    \/ TryLock(Solo)
    \/ DryRunItem(Solo)
    \/ ItemConnect(Solo)
    \/ LoopExit(Solo)
    \/ FileCheck(Solo)
    \/ Begin(Solo)
    \/ Body(Solo)
    \/ Insert(Solo)
    \/ Delete(Solo)
    \/ Commit(Solo)
    \/ Catch(Solo)
    \/ Finally(Solo)
    \/ Return(Solo)

SpecSolo == InitSolo /\ [][NextSolo]_vars

\* ------------------------------------------------- racing processes
\* the processes race on a database whose server and pool fail no request: a
\* statement is rejected only by a constraint, a try-lock only refused
InitRace ==
    /\ records \in SUBSET Versions
    /\ checksums = AsApplied(records)
    /\ effects = records
    /\ tableExists = (records # {})
    /\ commitCount = [w \in WriteKinds \X Versions |->
                         IF w[1] \in {"up", "ins"} /\ w[2] \in records THEN 1 ELSE 0]
    /\ lockHolder = [i \in LockIds |-> NoSession]
    /\ lockCount = [i \in LockIds |-> 0]
    /\ disk \in [Versions -> FileKinds]
    /\ faults = MaxFaults
    /\ runner \in [Procs -> Runners]
    /\ \A p, q \in Procs : p < q => RunnerRank(runner[p]) <= RunnerRank(runner[q])
    /\ pool = [p \in Procs |-> [c \in ConnIds |-> "idle"]]
    /\ tx = [p \in Procs |-> NoTx]
    /\ pc = [p \in Procs |-> "idle"]
    /\ op = [p \in Procs |-> "none"]
    /\ dryRun = [p \in Procs |-> FALSE]
    /\ count = [p \in Procs |-> 0]
    /\ queue = [p \in Procs |-> <<>>]
    /\ lockClient = [p \in Procs |-> NoConn]
    /\ client = [p \in Procs |-> NoConn]
    /\ summary = [p \in Procs |-> EmptySummary]
    /\ err = [p \in Procs |-> ""]
    /\ exc = [p \in Procs |-> NoExc]
    /\ log = [p \in Procs |-> <<>>]
    /\ calls = 0
    /\ before = [p \in Procs |-> NoBefore]
    /\ prev = [p \in Procs |-> "none"]
    /\ HelpersIdle

\* no request fails, so no unlock is lost and no idle session holds a lock
NextRace ==
    \/ \E p \in Procs, dry \in BOOLEAN : Turn(p) /\ MayCall(p) /\ Migrate(p, dry)
    \/ \E p \in Procs, n \in 0..MaxCount, dry \in BOOLEAN : Turn(p) /\ MayCall(p) /\ Rollback(p, n, dry)
    \/ \E p \in Procs : Turn(p) /\ GetPending(p)
    \/ \E p \in Procs : Turn(p) /\ GetApplied(p)
    \/ \E p \in Procs : Turn(p) /\ LockConnect(p)
    \/ \E p \in Procs : Turn(p) /\ TryLock(p)
    \/ \E p \in Procs : Turn(p) /\ DryRunItem(p)
    \/ \E p \in Procs : Turn(p) /\ ItemConnect(p)
    \/ \E p \in Procs : Turn(p) /\ LoopExit(p)
    \/ \E p \in Procs : Turn(p) /\ FileCheck(p)
    \/ \E p \in Procs : Turn(p) /\ Begin(p)
    \/ \E p \in Procs : Turn(p) /\ Body(p)
    \/ \E p \in Procs : Turn(p) /\ Insert(p)
    \/ \E p \in Procs : Turn(p) /\ Delete(p)
    \/ \E p \in Procs : Turn(p) /\ Commit(p)
    \/ \E p \in Procs : Turn(p) /\ Catch(p)
    \/ \E p \in Procs : Turn(p) /\ Finally(p)
    \/ \E p \in Procs : Turn(p) /\ Return(p)

SpecRace == InitRace /\ [][NextRace]_vars

\* ------------------------------------------------- the catalog of files
\* A directory entry is a file name and a text. The name is: whether it ends with
\* ".sql"; the version its first 14 characters spell when they are digits followed by
\* "_" (0 when they are not); the rest of the name before the extension.
OtherOf(v, nm, text) == [sql |-> FALSE, version |-> v, name |-> nm, content |-> text]

FileNames ==
    {FileOf(v, <<Run("lower", 1)>>, NoText) : v \in 0..MaxVersion}
        \cup {FileOf(1, <<Run("lower", 2)>>, NoText), FileOf(1, <<Run("upper", 1)>>, NoText),
              OtherOf(MaxVersion, <<Run("lower", 1)>>, NoText)}

FileTexts ==
    {<<"sqlA">>, <<"UP", "ws">>, <<"UP", "sqlA">>,
     <<"UP", "sqlB", "DOWN", "sqlA">>, <<"DOWN", "sqlB", "UP", "sqlA">>}

DirEntries == {[f EXCEPT !.content = text] : f \in FileNames, text \in FileTexts}

FileNameOf(f) == [f EXCEPT !.content = NoText]

\* the directories readdirSync may enumerate: up to MaxFiles entries of different
\* names, in any order
Dirs ==
    {NoDir} \cup
    {[exists |-> TRUE, files |-> fs] :
        fs \in {x \in UNION {[1..k -> DirEntries] : k \in 0..MaxFiles} :
                   \A i, j \in 1..Len(x) : i < j => FileNameOf(x[i]) # FileNameOf(x[j])}}

\* parseFilename(filename): MIGRATION_FILENAME_REGEX matches
parseFilename(f) == f.sql /\ f.version \in Versions /\ NameMatches(f.name)

\* the MigrationFile pushed for a directory entry
MigrationFileOf(f) ==
    LET sections == parseMigrationFile(f.content)
    IN  [version |-> f.version, name |-> f.name, upSql |-> sections.upSql,
         downSql |-> sections.downSql, checksum |-> computeChecksum(sections.upSql)]

\* migrations.sort((a, b) => a.version.localeCompare(b.version)); the sort is stable
RECURSIVE SortByVersion(_)
NotSorted(ms) == ms
SortByVersion(ms) ==
    IF ms = <<>> THEN ms
    ELSE LET s == SortByVersion(SubSeq(ms, 1, Len(ms) - 1))
             m == ms[Len(ms)]
             k == Cardinality({i \in 1..Len(s) : s[i].version <= m.version})
         IN  SubSeq(s, 1, k) \o <<m>> \o SubSeq(s, k + 1, Len(s))

\* the files logger.warn reports as skipped, in the order they are met
WarnedIn(d) ==
    IF ~d.exists THEN <<>>
    ELSE SelectSeq(d.files, LAMBDA f : f.sql /\ parseFilename(f) /\ ~IsMigration(f.content))

\* readMigrationFiles() over the directory d
readMigrationFilesIn(d) ==
    IF ~d.exists THEN <<>>
    ELSE LET files == SelectSeq(d.files, LAMBDA f : f.sql)
             kept == SelectSeq(files, LAMBDA f : parseFilename(f) /\ IsMigration(f.content))
             migrations == [i \in 1..Len(kept) |-> MigrationFileOf(kept[i])]
         IN  SortByVersion(migrations)

\* record.checksum !== file.checksum
RecordNeverDiffers(recordSum, fileSum) == FALSE
RecordDiffers(recordSum, fileSum) == recordSum # fileSum

\* files.map(...) of getStatus(), applied being the rows the SELECT returned
StatusOf(files, applied, sums) ==
    [i \in 1..Len(files) |->
        IF files[i].version \in applied
        THEN [version |-> files[i].version, name |-> files[i].name, status |-> "applied",
              checksum |-> sums[files[i].version],
              checksumMismatch |-> RecordDiffers(sums[files[i].version], files[i].checksum)]
        ELSE [version |-> files[i].version, name |-> files[i].name, status |-> "pending"]]

\* runner.readMigrationFiles()
ReadMigrationFiles ==
    /\ ret = NoRet
    /\ ret' = [fn |-> "readMigrationFiles", value |-> readMigrationFilesIn(dir),
               warned |-> WarnedIn(dir)]
    /\ UNCHANGED <<name, content, edited, dir>>
    /\ UNCHANGED runnerVars

\* runner.getStatus(): the files are read, the tracking table is ensured, the rows are
\* selected; a rejected statement rejects the call
GetStatus ==
    /\ ret = NoRet
    /\ \/ /\ Fault
          /\ ret' = [fn |-> "getStatus", threw |-> DbError("CREATE_TABLE")]
          /\ UNCHANGED tableExists
       \/ /\ Fault
          /\ tableExists' = TRUE
          /\ ret' = [fn |-> "getStatus", threw |-> DbError("SELECT")]
       \/ /\ NoFault
          /\ tableExists' = TRUE
          /\ ret' = [fn |-> "getStatus", threw |-> "",
                     value |-> StatusOf(readMigrationFilesIn(dir), records, checksums)]
    /\ UNCHANGED <<records, checksums, effects, commitCount, lockHolder, lockCount, disk>>
    /\ UNCHANGED <<runner, pool, tx, callVars, name, content, edited, dir>>

\* the checksums rows may hold: of the up-body a file has now, or of another one
StoredSums == {computeChecksum(<<"sqlA">>), computeChecksum(<<"sqlB">>)}

InitCatalog ==
    /\ NothingRunning
    /\ records \in SUBSET Versions
    /\ checksums \in [Versions -> StoredSums \cup {NoSum}]
    /\ \A v \in Versions : (checksums[v] = NoSum) = (v \notin records)
    /\ effects = records
    /\ tableExists = (records # {})
    /\ commitCount = [w \in WriteKinds \X Versions |->
                         IF w[1] \in {"up", "ins"} /\ w[2] \in records THEN 1 ELSE 0]
    /\ lockHolder = [i \in LockIds |-> NoSession]
    /\ lockCount = [i \in LockIds |-> 0]
    /\ dir \in Dirs
    /\ name = NoText /\ content = NoText /\ edited = NoText /\ ret = NoRet

NextCatalog ==
    \/ ReadMigrationFiles
    \/ GetStatus

SpecCatalog == InitCatalog /\ [][NextCatalog]_vars

\* ------------------------------------------------- the same call, twice
\* A call is made, and made again by a second process with a runner built alike, on
\* the database the first call found, the checksums of its rows apart: these are any.
\* No request fails, so that nothing but the database tells the two runs apart.
Twin == 2

InitTwin ==
    /\ records \in SUBSET Versions
    /\ checksums \in [Versions -> StoredSums \cup {NoSum}]
    /\ \A v \in Versions : (checksums[v] = NoSum) = (v \notin records)
    /\ effects = records
    /\ tableExists = (records # {})
    /\ commitCount = [w \in WriteKinds \X Versions |->
                         IF w[1] \in {"up", "ins"} /\ w[2] \in records THEN 1 ELSE 0]
    /\ lockHolder = [i \in LockIds |-> NoSession]
    /\ lockCount = [i \in LockIds |-> 0]
    /\ disk \in [Versions -> FileKinds]
    /\ faults = MaxFaults
    /\ runner \in [Procs -> Runners]
    /\ \A p \in Procs : runner[p] = runner[Solo]
    /\ pool = [p \in Procs |-> [c \in ConnIds |-> "idle"]]
    /\ tx = [p \in Procs |-> NoTx]
    /\ pc = [p \in Procs |-> "idle"]
    /\ op = [p \in Procs |-> "none"]
    /\ dryRun = [p \in Procs |-> FALSE]
    /\ count = [p \in Procs |-> 0]
    /\ queue = [p \in Procs |-> <<>>]
    /\ lockClient = [p \in Procs |-> NoConn]
    /\ client = [p \in Procs |-> NoConn]
    /\ summary = [p \in Procs |-> EmptySummary]
    /\ err = [p \in Procs |-> ""]
    /\ exc = [p \in Procs |-> NoExc]
    /\ log = [p \in Procs |-> <<>>]
    /\ calls = 0
    /\ before = [p \in Procs |-> NoBefore]
    /\ prev = [p \in Procs |-> "none"]
    /\ HelpersIdle

\* the first call has ended: the database is put back as that call found it, its rows
\* given the checksums sums, and the second process is handed the same call
Restore(sums) ==
    /\ pc[Solo] = "done" /\ pc[Twin] = "idle" /\ op[Twin] = "none"
    /\ \A v \in Versions : (sums[v] = NoSum) = (v \notin before[Solo].records)
    /\ tableExists' = before[Solo].tableExists
    /\ records' = before[Solo].records
    /\ effects' = before[Solo].effects
    /\ checksums' = sums
    /\ commitCount' = [w \in WriteKinds \X Versions |->
                          IF w[1] \in {"up", "ins"} /\ w[2] \in before[Solo].records THEN 1 ELSE 0]
    /\ op' = [op EXCEPT ![Twin] = op[Solo]]
    /\ dryRun' = [dryRun EXCEPT ![Twin] = dryRun[Solo]]
    /\ count' = [count EXCEPT ![Twin] = count[Solo]]
    /\ UNCHANGED <<lockHolder, lockCount, envVars, runner, helperVars, pool, tx, pc, queue,
                   lockClient, client, summary, err, exc, log, calls, before, prev>>

NextTwin ==
    \/ \E dry \in BOOLEAN : calls = 0 /\ Migrate(Solo, dry)
    \/ \E n \in 0..MaxCountSolo, dry \in BOOLEAN : calls = 0 /\ Rollback(Solo, n, dry)
    \/ \E sums \in [Versions -> StoredSums \cup {NoSum}] : Restore(sums)
    \/ op[Twin] = "migrate" /\ Migrate(Twin, dryRun[Twin])
    \/ op[Twin] = "rollback" /\ Rollback(Twin, count[Twin], dryRun[Twin])
    \/ \E p \in {Solo, Twin} : GetPending(p)
    \/ \E p \in {Solo, Twin} : GetApplied(p)
    \/ \E p \in {Solo, Twin} : LockConnect(p)
    \/ \E p \in {Solo, Twin} : TryLock(p)
    \/ \E p \in {Solo, Twin} : DryRunItem(p)
    \/ \E p \in {Solo, Twin} : ItemConnect(p)
    \/ \E p \in {Solo, Twin} : LoopExit(p)
    \/ \E p \in {Solo, Twin} : FileCheck(p)
    \/ \E p \in {Solo, Twin} : Begin(p)
    \/ \E p \in {Solo, Twin} : Body(p)
    \/ \E p \in {Solo, Twin} : Insert(p)
    \/ \E p \in {Solo, Twin} : Delete(p)
    \/ \E p \in {Solo, Twin} : Commit(p)
    \/ \E p \in {Solo, Twin} : Catch(p)
    \/ \E p \in {Solo, Twin} : Finally(p)

SpecTwin == InitTwin /\ [][NextTwin]_vars

\* ------------------------------------------------- two calls in a row
\* A call is made and awaited, then a second one, by a process with a runner built
\* alike, on the files and the database the first call left. No request fails.
InitPair ==
    /\ records \in SUBSET Versions
    /\ checksums = AsApplied(records)
    /\ effects = records
    /\ tableExists = (records # {})
    /\ commitCount = [w \in WriteKinds \X Versions |->
                         IF w[1] \in {"up", "ins"} /\ w[2] \in records THEN 1 ELSE 0]
    /\ lockHolder = [i \in LockIds |-> NoSession]
    /\ lockCount = [i \in LockIds |-> 0]
    /\ disk \in [Versions -> FileKinds]
    /\ faults = MaxFaults
    /\ runner \in [Procs -> Runners]
    /\ \A p \in Procs : runner[p] = runner[Solo]
    /\ pool = [p \in Procs |-> [c \in ConnIds |-> "idle"]]
    /\ tx = [p \in Procs |-> NoTx]
    /\ pc = [p \in Procs |-> "idle"]
    /\ op = [p \in Procs |-> "none"]
    /\ dryRun = [p \in Procs |-> FALSE]
    /\ count = [p \in Procs |-> 0]
    /\ queue = [p \in Procs |-> <<>>]
    /\ lockClient = [p \in Procs |-> NoConn]
    /\ client = [p \in Procs |-> NoConn]
    /\ summary = [p \in Procs |-> EmptySummary]
    /\ err = [p \in Procs |-> ""]
    /\ exc = [p \in Procs |-> NoExc]
    /\ log = [p \in Procs |-> <<>>]
    /\ calls = 0
    /\ before = [p \in Procs |-> NoBefore]
    /\ prev = [p \in Procs |-> "none"]
    /\ HelpersIdle

\* the first call has returned or thrown
FirstEnded == calls = 1 /\ pc[Solo] = "done"

NextPair ==
    \/ \E dry \in BOOLEAN : calls = 0 /\ Migrate(Solo, dry)
    \/ \E n \in 0..MaxCountSolo, dry \in BOOLEAN : calls = 0 /\ Rollback(Solo, n, dry)
    \/ \E dry \in BOOLEAN : FirstEnded /\ Migrate(Twin, dry)
    \/ \E n \in 0..MaxCountSolo, dry \in BOOLEAN : FirstEnded /\ Rollback(Twin, n, dry)
    \/ \E p \in {Solo, Twin} : GetPending(p)
    \/ \E p \in {Solo, Twin} : GetApplied(p)
    \/ \E p \in {Solo, Twin} : LockConnect(p)
    \/ \E p \in {Solo, Twin} : TryLock(p)
    \/ \E p \in {Solo, Twin} : DryRunItem(p)
    \/ \E p \in {Solo, Twin} : ItemConnect(p)
    \/ \E p \in {Solo, Twin} : LoopExit(p)
    \/ \E p \in {Solo, Twin} : FileCheck(p)
    \/ \E p \in {Solo, Twin} : Begin(p)
    \/ \E p \in {Solo, Twin} : Body(p)
    \/ \E p \in {Solo, Twin} : Insert(p)
    \/ \E p \in {Solo, Twin} : Delete(p)
    \/ \E p \in {Solo, Twin} : Commit(p)
    \/ \E p \in {Solo, Twin} : Catch(p)
    \/ \E p \in {Solo, Twin} : Finally(p)

SpecPair == InitPair /\ [][NextPair]_vars

\* ------------------------------------------------- one runner, one pool
\* The calls of one runner on its pool of PoolMax connections, each awaited before the
\* next, while a session of another program takes and releases the advisory locks.
\* Every request is answered, none is rejected by the server: a try-lock is refused
\* only while the other session holds the lock, a checkout fails only when the pool
\* has no connection left before connectionTimeoutMillis.
ForeignSession == <<0, 1>>

ForeignLock(id) ==
    /\ lockHolder[id] = NoSession
    /\ lockHolder' = [lockHolder EXCEPT ![id] = ForeignSession]
    /\ lockCount' = [lockCount EXCEPT ![id] = 1]
    /\ UNCHANGED <<tableExists, records, checksums, effects, commitCount, envVars, runner, helperVars,
                   pool, tx, callVars>>

ForeignUnlock(id) ==
    /\ lockHolder[id] = ForeignSession
    /\ lockHolder' = [lockHolder EXCEPT ![id] = NoSession]
    /\ lockCount' = [lockCount EXCEPT ![id] = 0]
    /\ UNCHANGED <<tableExists, records, checksums, effects, commitCount, envVars, runner, helperVars,
                   pool, tx, callVars>>

InitPool ==
    /\ records \in SUBSET Versions
    /\ checksums = AsApplied(records)
    /\ effects = records
    /\ tableExists = (records # {})
    /\ commitCount = [w \in WriteKinds \X Versions |->
                         IF w[1] \in {"up", "ins"} /\ w[2] \in records THEN 1 ELSE 0]
    /\ lockHolder = [i \in LockIds |-> NoSession]
    /\ lockCount = [i \in LockIds |-> 0]
    /\ disk \in [Versions -> FileKinds]
    /\ faults = MaxFaults
    /\ runner \in [Procs -> Runners]
    /\ \A p \in Procs : runner[p] = runner[Solo]
    /\ pool = [p \in Procs |-> [c \in ConnIds |-> "idle"]]
    /\ tx = [p \in Procs |-> NoTx]
    /\ pc = [p \in Procs |-> "idle"]
    /\ op = [p \in Procs |-> "none"]
    /\ dryRun = [p \in Procs |-> FALSE]
    /\ count = [p \in Procs |-> 0]
    /\ queue = [p \in Procs |-> <<>>]
    /\ lockClient = [p \in Procs |-> NoConn]
    /\ client = [p \in Procs |-> NoConn]
    /\ summary = [p \in Procs |-> EmptySummary]
    /\ err = [p \in Procs |-> ""]
    /\ exc = [p \in Procs |-> NoExc]
    /\ log = [p \in Procs |-> <<>>]
    /\ calls = 0
    /\ before = [p \in Procs |-> NoBefore]
    /\ prev = [p \in Procs |-> "none"]
    /\ HelpersIdle

NextPool ==
    \/ \E id \in LockIds : ForeignLock(id)
    \/ \E id \in LockIds : ForeignUnlock(id)
    \/ \E dry \in BOOLEAN : Migrate(Solo, dry)
    \/ \E n \in 0..MaxCountSolo, dry \in BOOLEAN : Rollback(Solo, n, dry)
    \/ GetPending(Solo)
    \/ GetApplied(Solo)
    \/ LockConnect(Solo)
    \/ TryLock(Solo)
    \/ DryRunItem(Solo)
    \/ ItemConnect(Solo)
    \/ LoopExit(Solo)
    \/ FileCheck(Solo)
    \/ Begin(Solo)
    \/ Body(Solo)
    \/ Insert(Solo)
    \/ Delete(Solo)
    \/ Commit(Solo)
    \/ Catch(Solo)
    \/ Finally(Solo)
    \/ Return(Solo)

SpecPool == InitPool /\ [][NextPool]_vars

\* ================================================================= claims
\* what a call has issued so far
Idx(p) == 1..Len(log[p])
\* statements of an item's transaction
TxStmts == {"BEGIN", "UP", "DOWN", "INSERT", "DELETE", "COMMIT", "ROLLBACK"}
\* entries of an item: its connection checkout (tried or obtained), its statements
ItemEntries(p) == {i \in Idx(p) : log[p][i].v \in Versions /\ log[p][i].s \in TxStmts \cup {"connect"}}
\* checkouts of an execution connection that succeeded
ExecConnects(p) ==
    {i \in Idx(p) : log[p][i].s = "connect" /\ log[p][i].v # 0 /\ log[p][i].r = "ok"}
\* the call of p has returned or thrown
Ended(p) == pc[p] = "done"
\* an item of the call of p failed inside its try block
ItemFailed(p) == err[p] # ""

\* C1: in every reachable state a tracking record of v exists only if a transaction
\* that executed v's up-body committed, and v's up-body effects and its record have
\* been made visible the same number of times: together or not at all.
C1_RecordOnlyWithCommittedBody ==
    \A v \in Versions :
        /\ commitCount[<<"up", v>>] = commitCount[<<"ins", v>>]
        /\ v \in records => commitCount[<<"up", v>>] > 0
        /\ \A p \in Procs : <<"ins", v>> \in tx[p].writes => <<"up", v>> \in tx[p].writes

\* C1 witness: a migrate() committed one item and its next item failed at COMMIT
C1_Witness ==
    \E p \in Procs :
        /\ Ended(p) /\ op[p] = "migrate"
        /\ Len(summary[p].list) = 1
        /\ summary[p].failed.error = DbError("COMMIT")

\* the pending batch of the call of p, from the files and the records it started with
PendingAtStart(p) ==
    SortAsc({v \in Versions : disk[v] # "missing" /\ v \notin before[p].records})

HasLock(p) ==
    /\ lockClient[p] # NoConn
    /\ pc[p] \in {"loop", "begin", "body", "record", "commit", "catch", "finally"}

\* the call of p is executing an item's transaction
InTransaction(p) == client[p] # NoConn

\* C3: of the processes that lock with the same lock id, at no time have two acquired
\* the lock without having released it, so no two of them execute item transactions
\* at the same time; the database agrees on who holds the lock.
C3_MutualExclusion ==
    \A p, q \in Procs :
        (p # q /\ runner[p].useLock /\ runner[q].useLock /\ runner[p].lockId = runner[q].lockId) =>
            /\ ~(HasLock(p) /\ HasLock(q))
            /\ ~(InTransaction(p) /\ InTransaction(q))
            /\ HasLock(p) => lockHolder[runner[p].lockId] = <<p, lockClient[p]>>

\* C3 witness: one process is inside an item's transaction under the lock when another
\* one's try-lock on the same id is refused
C3_Witness ==
    \E p, q \in Procs :
        /\ p # q /\ runner[p].lockId = runner[q].lockId
        /\ HasLock(p) /\ pc[p] = "record"
        /\ exc[q].name = "MigrationLockError"

\* the call of p threw MigrationLockError
LockErrorThrown(p) == exc[p].name = "MigrationLockError"

\* C4: when the try-lock reports the lock held elsewhere, migrate() / rollback() throw
\* MigrationLockError carrying the configured lock id and process no item: no execution
\* connection checked out, no BEGIN, body or record write issued, nothing reported.
C4_ContentionProcessesNothing ==
    \A p \in Procs :
        /\ (Ended(p) /\ log[p] # <<>> /\ log[p][Len(log[p])].r = "refused") => LockErrorThrown(p)
        /\ LockErrorThrown(p) =>
              /\ runner[p].useLock
              /\ exc[p].lockId = runner[p].lockId
              /\ log[p][Len(log[p])] = Entry(lockClient[p], "TRY_LOCK", runner[p].lockId, "refused")
              /\ ItemEntries(p) = {}
              /\ client[p] = NoConn /\ tx[p] = NoTx
              /\ summary[p].list = <<>> /\ summary[p].failed = NoFail /\ summary[p].total = 0

\* C4 witness: a rollback() with a custom lock id is refused the lock
C4_Witness ==
    \E p \in Procs :
        /\ LockErrorThrown(p) /\ op[p] = "rollback"
        /\ exc[p].lockId = 99999
        /\ queue[p] # <<>>

\* C5: a call that acquired the lock issues, before it completes, an unlock for the same
\* lock id on the connection that acquired it, however the batch ended.
C5_UnlockOnAcquiringConnection ==
    \A p \in Procs :
        Ended(p) =>
            \A i \in Idx(p) :
                (log[p][i].s = "TRY_LOCK" /\ log[p][i].r = "ok") =>
                    \E j \in Idx(p) :
                        /\ j > i
                        /\ log[p][j].s = "UNLOCK"
                        /\ log[p][j].c = log[p][i].c
                        /\ log[p][j].v = log[p][i].v

\* C5 witness: the call held the lock when a rejected ROLLBACK threw out of it
C5_Witness ==
    \E p \in Procs :
        /\ Ended(p) /\ exc[p] = ErrorOf(DbError("ROLLBACK"))
        /\ \E i \in Idx(p) : log[p][i].s = "TRY_LOCK" /\ log[p][i].r = "ok"

\* C6: every connection checked out for the lock is back in the pool when the call
\* returns or throws, on every exit path, a refused or failed try-lock included.
C6_LockConnectionReleased ==
    \A p \in Procs :
        (Ended(p) /\ lockClient[p] # NoConn) =>
            /\ pool[p][lockClient[p]] = "idle"
            /\ \E i \in Idx(p) : log[p][i] = Entry(lockClient[p], "release", 0, "ok")

\* the entries of the execution connection checked out at i, up to the next checkout
EndOfItem(p, i) ==
    LET later == {j \in Idx(p) : j > i /\ log[p][j].s = "connect"}
    IN  IF later = {} THEN Len(log[p]) + 1 ELSE Min(later)
ReleasesOf(p, i) ==
    {k \in (i + 1)..(EndOfItem(p, i) - 1) : log[p][k].s = "release" /\ log[p][k].c = log[p][i].c}

\* C7: an item's connection is released exactly once, right after the item's COMMIT
\* or ROLLBACK (accepted or not) and before the next item's checkout or the end of the
\* batch; between items the call holds no execution connection.
C7_ItemConnectionReleasedOnce ==
    \A p \in Procs :
        /\ client[p] # NoConn => pool[p][client[p]] = "out"
        /\ pc[p] \in {"loop", "finally", "done", "idle"} => client[p] = NoConn
        /\ \A i \in ExecConnects(p) :
              (EndOfItem(p, i) <= Len(log[p]) \/ pc[p] \in {"loop", "finally", "done"}) =>
                  /\ Cardinality(ReleasesOf(p, i)) = 1
                  /\ \A k \in ReleasesOf(p, i) :
                        /\ log[p][k - 1].c = log[p][i].c
                        /\ \/ log[p][k - 1].s = "COMMIT" /\ log[p][k - 1].r = "ok"
                           \/ log[p][k - 1].s = "ROLLBACK"

\* C7 witness: the ROLLBACK of the second item of a batch was rejected, and both items'
\* connections were released
C7_Witness ==
    \E p \in Procs :
        /\ Ended(p) /\ Cardinality(ExecConnects(p)) = 2
        /\ \E k \in Idx(p) : log[p][k].s = "ROLLBACK" /\ log[p][k].r # "ok"
        /\ log[p][Len(log[p])].s = "release"

\* errors of an item's SQL body or of its tracking-record write
BodyOrRecordErrors ==
    {DbError("UP"), DbError("DOWN"), DbError("INSERT"), DbError("DELETE"),
     DbError("unique_violation")}

\* the ROLLBACK sent for the failed item was accepted
RollbackAccepted(p) == \E i \in Idx(p) : log[p][i].s = "ROLLBACK" /\ log[p][i].r = "ok"

\* C8 as stated: when an item's body or record write fails the call still returns a
\* summary whose failed entry is that item with the database's message, and only lock
\* (and configuration) failures surface as exceptions.
C8_FailureReportedNeverThrown ==
    \A p \in Procs :
        Ended(p) =>
            /\ err[p] \in BodyOrRecordErrors =>
                  /\ exc[p] = NoExc
                  /\ summary[p].failed = [version |-> Head(queue[p]).version, error |-> err[p]]
            /\ exc[p] # NoExc => LockErrorThrown(p)

\* C8 amended: when an item's body or record write fails and the ROLLBACK that follows
\* is accepted, the call returns a summary whose failed entry is that item with the
\* database's message; a rejected ROLLBACK throws its own error instead.  Besides the
\* lock error, the errors of the tracking-table setup, of the applied-records query and
\* of a connection checkout or try-lock query surface as exceptions.
C8_FailureReportedUnlessRollbackFails ==
    \A p \in Procs :
        Ended(p) =>
            /\ (err[p] \in BodyOrRecordErrors /\ RollbackAccepted(p)) =>
                  /\ exc[p] = NoExc
                  /\ summary[p].failed = [version |-> Head(queue[p]).version, error |-> err[p]]
                  /\ \E i \in Idx(p) : log[p][i].v = summary[p].failed.version
                                          /\ log[p][i].r = summary[p].failed.error
            /\ (ItemFailed(p) /\ ~RollbackAccepted(p)) =>
                  /\ exc[p] = ErrorOf(DbError("ROLLBACK"))
                  /\ summary[p].failed = NoFail
            /\ exc[p] # NoExc =>
                  \/ LockErrorThrown(p)
                  \/ exc[p].message \in {DbError("CREATE_TABLE"), DbError("SELECT"), "connect",
                                         DbError("TRY_LOCK"), DbError("ROLLBACK")}

\* C8 witness: the record write of a rollback item failed, its ROLLBACK was accepted
\* and the summary is returned with it
C8_Witness ==
    \E p \in Procs :
        /\ Ended(p) /\ exc[p] = NoExc
        /\ summary[p].failed.error = DbError("DELETE")
        /\ RollbackAccepted(p)

\* C9: during a dry-run call no execution connection is checked out, no transaction
\* statement and no INSERT or DELETE is issued, and the rows of the tracking table
\* (and the schema) stay as the call found them.
C9_DryRunTouchesNoRow ==
    \A p \in Procs :
        dryRun[p] =>
            /\ client[p] = NoConn
            /\ tx[p] = NoTx
            /\ ItemEntries(p) = {}
            /\ \A i \in Idx(p) : log[p][i].s \notin TxStmts
            /\ calls = 1 => records = before[p].records /\ effects = before[p].effects

\* C9 witness: a dry-run rollback under the lock reported the item it would roll back
C9_Witness ==
    \E p \in Procs :
        /\ Ended(p) /\ dryRun[p] /\ op[p] = "rollback"
        /\ lockClient[p] # NoConn
        /\ Len(summary[p].list) = 1

\* C10: a dry-run call issues no mutating statement at all, not even the creation of
\* the tracking table, and leaves the database as it found it.
C10_DryRunIssuesNoMutation ==
    \A p \in Procs :
        (Ended(p) /\ dryRun[p] /\ calls = 1) =>
            /\ \A i \in Idx(p) : log[p][i].s \notin TxStmts
            /\ tableExists = before[p].tableExists
            /\ records = before[p].records
            /\ effects = before[p].effects

\* the applied records a rollback(count) is meant to process: the count of highest
\* version among those the call found
LastApplied(p) ==
    LET applied == SortAsc(before[p].records)
        n == Len(applied)
        m == IF count[p] < n THEN count[p] ELSE n
    IN  SeqRange(SubSeq(applied, n - m + 1, n))

\* records the call of p has processed: rolled back, or failed
Processed(p) ==
    SeqRange(summary[p].list) \cup
        (IF summary[p].failed = NoFail THEN {} ELSE {summary[p].failed.version})

\* C11: rollback(count), for every count >= 0, processes no record other than the
\* count applied records of highest version: at most min(count, applied) records are
\* rolled back or failed, statements are issued for those only, and every other
\* record stays in the tracking table.
C11_RollbackOnlyLastCount ==
    \A p \in Procs :
        (Ended(p) /\ op[p] = "rollback") =>
            /\ Cardinality(Processed(p)) <= Cardinality(LastApplied(p))
            /\ Processed(p) \subseteq LastApplied(p)
            /\ \A i \in ItemEntries(p) : log[p][i].v \in LastApplied(p)
            /\ (before[p].records \ LastApplied(p)) \subseteq records

\* the versions of the accepted statements stmt of the call of p, in the order issued
RECURSIVE VersionsOf(_, _, _)
VersionsOf(p, stmt, n) ==
    IF n = 0 THEN <<>>
    ELSE VersionsOf(p, stmt, n - 1) \o
            (IF log[p][n].s = stmt /\ log[p][n].r = "ok" THEN <<log[p][n].v>> ELSE <<>>)

\* C12: rollback(N) processes the applied records from the highest version downwards
\* and lists them in summary.rolledBack in that strictly descending order; the
\* transaction of a record begins only after the one of every higher record it
\* processed has committed.
C12_RollbackDescending ==
    \A p \in Procs :
        op[p] = "rollback" =>
            LET applied == SortAsc(before[p].records)
                n == Len(applied)
                list == summary[p].list
            IN  /\ Len(list) <= n
                /\ \A i \in 1..Len(list) : list[i] = applied[n - i + 1]
                /\ \A i, j \in 1..Len(list) : i < j => list[i] > list[j]
                /\ ~dryRun[p] /\ pc[p] \in {"loop", "finally", "done"} =>
                      list = VersionsOf(p, "COMMIT", Len(log[p]))
                /\ \A j \in Idx(p) :
                      log[p][j].s = "BEGIN" =>
                          \A i \in ExecConnects(p) :
                              (i < j /\ log[p][i].v # log[p][j].v) =>
                                  /\ log[p][i].v > log[p][j].v
                                  /\ \E k \in (i + 1)..(j - 1) :
                                        log[p][k] = Entry(log[p][i].c, "COMMIT", log[p][i].v, "ok")

\* C12 witness: a rollback(2) has rolled back two records
C12_Witness ==
    \E p \in Procs :
        /\ Ended(p) /\ op[p] = "rollback" /\ ~dryRun[p] /\ count[p] = 2
        /\ Len(summary[p].list) = 2
        /\ records = {}

\* C13: migrate() attempts the pending items one after the other in ascending version
\* order: an item's BEGIN is issued only after the transaction of every earlier item
\* has committed, and summary.applied lists the items in that same order.
C13_MigrateAscending ==
    \A p \in Procs :
        op[p] = "migrate" =>
            LET pend == PendingAtStart(p)
                list == summary[p].list
            IN  /\ Len(list) <= Len(pend)
                /\ \A i \in 1..Len(list) : list[i] = pend[i]
                /\ \A i, j \in 1..Len(list) : i < j => list[i] < list[j]
                /\ ~dryRun[p] /\ pc[p] \in {"loop", "finally", "done"} =>
                      list = VersionsOf(p, "COMMIT", Len(log[p]))
                /\ \A j \in Idx(p) :
                      log[p][j].s = "BEGIN" =>
                          \A i \in ExecConnects(p) :
                              (i < j /\ log[p][i].v # log[p][j].v) =>
                                  /\ log[p][i].v < log[p][j].v
                                  /\ \E k \in (i + 1)..(j - 1) :
                                        log[p][k] = Entry(log[p][i].c, "COMMIT", log[p][i].v, "ok")

\* C13 witness: the second of two pending items is in its transaction, the first one
\* committed and listed
C13_Witness ==
    \E p \in Procs :
        /\ op[p] = "migrate" /\ pc[p] = "record"
        /\ Len(summary[p].list) = 1
        /\ Head(queue[p]).version > summary[p].list[1]

\* applied records the call of p found whose file is missing or has no DOWN section
Irreversible(p) == {v \in before[p].records : disk[v] # "full"}

C15_SecondMigrateIsNoOp ==
    \A p \in Procs :
        (prev[p] = "migrated" /\ op[p] = "migrate") =>
            /\ records = before[p].records
            /\ effects = before[p].effects
            /\ ItemEntries(p) = {}
            /\ queue[p] = <<>>
            /\ summary[p] = EmptySummary
            /\ Ended(p) /\ exc[p] = NoExc => log[p] = <<Entry(0, "CREATE_TABLE", 0, "ok")>> \o AppliedQueryLog

\* C15 witness: the second migrate() has returned; both versions are recorded
C15_Witness ==
    \E p \in Procs :
        /\ prev[p] = "migrated" /\ op[p] = "migrate" /\ ~dryRun[p]
        /\ Ended(p) /\ exc[p] = NoExc
        /\ records = Versions

\* the versions of the files the directory holds
Discovered == {v \in Versions : disk[v] # "missing"}

\* no statement or checkout of the call of p has been rejected or refused
NothingRejected(p) == \A i \in Idx(p) : log[p][i].r = "ok"

AppliedRead(p) == \E i \in Idx(p) : log[p][i] = Entry(0, "SELECT", 0, "ok")

\* the migrate() of p found nothing pending
NothingPending(p) == op[p] = "migrate" /\ AppliedRead(p) /\ summary[p].total_pending = 0

\* C17: a migrate() that finds nothing pending returns a zero-count summary at once:
\* it checks out no connection and sends no try-lock, with locking enabled too, so it
\* never throws MigrationLockError, whoever holds the lock.
C17_NothingPendingTakesNoLock ==
    \A p \in Procs :
        NothingPending(p) =>
            /\ Ended(p)
            /\ exc[p] = NoExc
            /\ summary[p] = EmptySummary
            /\ lockClient[p] = NoConn /\ client[p] = NoConn
            /\ \A i \in Idx(p) : log[p][i].s \notin {"connect", "TRY_LOCK"}
            /\ log[p] = <<Entry(0, "CREATE_TABLE", 0, "ok")>> \o AppliedQueryLog

\* C17 witness: a locking migrate() has returned with nothing pending while another
\* process holds the lock of the same id
C17_Witness ==
    \E p, q \in Procs :
        /\ p # q /\ runner[p].useLock /\ runner[q].lockId = runner[p].lockId
        /\ NothingPending(p) /\ Ended(p)
        /\ HasLock(q) /\ lockHolder[runner[q].lockId] = <<q, lockClient[q]>>

\* the rollback() of p, alone on the database, read an empty tracking table
NothingApplied(p) == op[p] = "rollback" /\ AppliedRead(p) /\ before[p].records = {}

\* C18: a rollback() that finds no applied record returns a zero summary at once,
\* having checked out no connection and sent no try-lock, so it never throws
\* MigrationLockError. rollback() has no such early return: with locking enabled it
\* checks out the lock connection and sends the try-lock whatever toRollback holds.
C18_NothingAppliedTakesNoLock ==
    \A p \in Procs :
        NothingApplied(p) =>
            /\ lockClient[p] = NoConn /\ client[p] = NoConn
            /\ \A i \in Idx(p) : log[p][i].s \notin {"connect", "TRY_LOCK"}
            /\ ~LockErrorThrown(p)
            /\ (Ended(p) /\ exc[p] = NoExc) => summary[p] = EmptySummary

\* the try-lock requests the call of p has sent
TryLocks(p) == {i \in Idx(p) : log[p][i].s = "TRY_LOCK"}

\* C19: acquireLock sends one try-lock request, with the runner's lock id, on the lock
\* connection, and never a second one. When the reply says acquired the call goes on,
\* holding the lock, with no error; when it says not acquired the call ends there with
\* MigrationLockError carrying the requested id; MigrationLockError is thrown in no
\* other case.
C19_TryLockOnceNoRetry ==
    \A p \in Procs :
        /\ Cardinality(TryLocks(p)) <= 1
        /\ \A i \in TryLocks(p) :
              /\ log[p][i].v = runner[p].lockId
              /\ log[p][i].c = lockClient[p]
              /\ log[p][i].r = "refused" =>
                    /\ exc[p] = MigrationLockError(log[p][i].v)
                    /\ Ended(p)
                    /\ i = Len(log[p])
              /\ log[p][i].r = "ok" =>
                    /\ ~LockErrorThrown(p)
                    /\ i = Len(log[p]) =>
                          /\ HasLock(p) /\ exc[p] = NoExc
                          /\ lockHolder[log[p][i].v] = <<p, lockClient[p]>>
        /\ LockErrorThrown(p) => \E i \in TryLocks(p) : log[p][i].r = "refused"

\* C19 witness: a migrate() was refused the default lock, held by the other process
C19_Witness ==
    \E p, q \in Procs :
        /\ p # q /\ op[p] = "migrate" /\ Ended(p)
        /\ exc[p] = MigrationLockError(DEFAULT_LOCK_ID)
        /\ HasLock(q) /\ lockHolder[DEFAULT_LOCK_ID] = <<q, lockClient[q]>>

\* the unlock requests of the call of p that the database rejected
FailedUnlocks(p) == {i \in Idx(p) : log[p][i].s = "UNLOCK" /\ log[p][i].r # "ok"}

\* an error left the batch of p: a checkout for an item or a ROLLBACK was rejected
BatchThrew(p) ==
    \E i \in Idx(p) : log[p][i].s \in {"connect", "ROLLBACK"} /\ log[p][i].r # "ok"

\* C20: releaseLock never throws. No call ends with the error of a rejected unlock;
\* after a rejected unlock the lock connection is released to the pool all the same,
\* and a call whose batch completed returns its summary.
C20_UnlockFailureSwallowed ==
    \A p \in Procs :
        /\ exc[p] # ErrorOf(DbError("UNLOCK"))
        /\ \A i \in FailedUnlocks(p) :
              /\ Ended(p)
              /\ log[p][i].c = lockClient[p]
              /\ i + 1 = Len(log[p])
              /\ log[p][i + 1] = Entry(lockClient[p], "release", 0, "ok")
              /\ pool[p][lockClient[p]] = "idle"
              /\ ~BatchThrew(p) => exc[p] = NoExc

\* C20 witness: a call that processed an item returned its summary although its unlock
\* was rejected
C20_Witness ==
    \E p \in Procs :
        /\ FailedUnlocks(p) # {} /\ Ended(p) /\ exc[p] = NoExc
        /\ summary[p].total >= 1

\* how many rows of version v the tracking table holds: the committed INSERTs of v
\* less the committed DELETEs that removed one
RowsOf(v) == commitCount[<<"ins", v>>] - commitCount[<<"del", v>>]

\* the INSERTs of the call of p that hit the unique constraint
UniqueViolations(p) ==
    {i \in Idx(p) : log[p][i].s = "INSERT" /\ log[p][i].r = DbError("unique_violation")}

\* C21: under every interleaving of migrate() and rollback(), locked or not, the
\* tracking table holds at most one row per version; an INSERT of a version that is
\* already recorded is rejected, the item's transaction is rolled back on the same
\* connection and nothing of it becomes visible.
C21_VersionUnique ==
    /\ \A v \in Versions : RowsOf(v) = (IF v \in records THEN 1 ELSE 0)
    /\ \A p \in Procs : \A i \in UniqueViolations(p) :
          /\ log[p][i].v \in records
          /\ IF i = Len(log[p])
             THEN pc[p] = "catch" /\ <<"ins", log[p][i].v>> \notin tx[p].writes
             ELSE /\ log[p][i + 1].s = "ROLLBACK"
                  /\ log[p][i + 1].c = log[p][i].c
                  /\ log[p][i + 1].v = log[p][i].v
                  /\ tx[p] = NoTx
                  /\ log[p][i].v \notin SeqRange(summary[p].list)

\* C21 witness: a migrate() lost the race for a version to another process, and the
\* item was rolled back and reported as failed
C21_Witness ==
    \E p \in Procs : \E i \in UniqueViolations(p) :
        /\ Ended(p) /\ exc[p] = NoExc
        /\ summary[p].failed.version = log[p][i].v
        /\ RowsOf(log[p][i].v) = 1

\* the versions of the items the call of p works through, in processing order: those
\* already listed in the summary, then those still queued (a failed item stays queued)
Order(p) == summary[p].list \o [i \in 1..Len(queue[p]) |-> queue[p][i].version]

\* the order a call alone on the database must work in: pending files ascending for
\* migrate(), the records selected by count descending for rollback()
StartOrder(p) ==
    IF op[p] = "migrate" THEN PendingAtStart(p)
    ELSE ToRollback(SortAsc(before[p].records), count[p])

\* C22: in the summary of every migrate() and rollback() the count equals the length
\* of the result list; a failed item is not in the list, it is the item that follows
\* the last listed one in processing order, processing stops at it, and no call
\* rolls back more than one item's transaction; a migrate() that returns failed = null
\* has total_applied = total_pending.
C22_SummaryConsistent ==
    \A p \in Procs :
        /\ summary[p].total = Len(summary[p].list)
        /\ AppliedRead(p) => Order(p) = StartOrder(p)
        /\ summary[p].failed # NoFail =>
              /\ summary[p].failed.version \notin SeqRange(summary[p].list)
              /\ Len(summary[p].list) < Len(Order(p))
              /\ summary[p].failed.version = Order(p)[Len(summary[p].list) + 1]
              /\ pc[p] \in {"finally", "done"}
        /\ Cardinality({i \in Idx(p) : log[p][i].s = "ROLLBACK"}) <= 1
        /\ (Ended(p) /\ exc[p] = NoExc /\ op[p] = "migrate" /\ summary[p].failed = NoFail) =>
              summary[p].total = summary[p].total_pending

\* C22 witness: a rollback(2) returned one rolled-back item and the next one as failed
C22_Witness ==
    \E p \in Procs :
        /\ Ended(p) /\ exc[p] = NoExc /\ op[p] = "rollback" /\ ~dryRun[p]
        /\ summary[p].total = 1
        /\ summary[p].failed # NoFail

\* C25: getPendingMigrations() returns the discovered files that have no tracking
\* record, in ascending version order, a file older than the newest applied version
\* included; a record without a file is never among them and does not keep migrate()
\* from applying them.
C25_PendingIsFilesWithoutRecord ==
    \A p \in Procs :
        (op[p] = "migrate" /\ AppliedRead(p)) =>
            /\ Order(p) = SortAsc(Discovered \ before[p].records)
            /\ summary[p].total_pending = Cardinality(Discovered \ before[p].records)
            /\ \A i \in ItemEntries(p) : log[p][i].v \in Discovered \ before[p].records
            /\ (Ended(p) /\ ~dryRun[p] /\ NothingRejected(p)) =>
                  /\ exc[p] = NoExc /\ summary[p].failed = NoFail
                  /\ records = before[p].records \cup Discovered

\* C25 witness: version 2 is recorded and has no file, the file of version 1 is not
\* recorded; migrate() applied version 1
C25_Witness ==
    \E p \in Procs :
        /\ op[p] = "migrate" /\ Ended(p) /\ ~dryRun[p]
        /\ before[p].records = {2} /\ disk[2] = "missing"
        /\ summary[p].list = <<1>> /\ summary[p].failed = NoFail
        /\ records = {1, 2}

\* the call of p has started on an item: a checkout or statement for it, or a result
\* or failure reported for it
BatchStarted(p) ==
    ItemEntries(p) # {} \/ summary[p].list # <<>> \/ summary[p].failed # NoFail

\* the entries of the call of p that concern the advisory lock: the checkout of the
\* lock connection, the try-lock and the unlock
LockEntries(p) ==
    {i \in Idx(p) : log[p][i].s \in {"TRY_LOCK", "UNLOCK"}
                    \/ (log[p][i].s \in {"connect", "release"} /\ log[p][i].v = 0)}

\* C28: a runner built from a config without useLock locks, one built the legacy way
\* or with useLock: false does not. A locking runner starts on no item before its
\* try-lock was granted, and a migrate() of it that has pending items checks out the
\* lock connection and sends the try-lock first; a runner that does not lock checks
\* out no lock connection, sends no try-lock and no unlock, and holds no lock.
C28_LockingByConstructor ==
    /\ \A id \in {0, 99999} :
          /\ NewRunner("config", "unset", id).useLock
          /\ ~NewRunner("config", "false", id).useLock
          /\ \A u \in {"unset", "true", "false"} : ~NewRunner("legacy", u, id).useLock
    /\ \A p \in Procs :
          /\ runner[p] \in Runners
          /\ ~runner[p].useLock =>
                /\ LockEntries(p) = {}
                /\ lockClient[p] = NoConn
                /\ \A id \in LockIds : lockHolder[id][1] # p
          /\ runner[p].useLock =>
                /\ BatchStarted(p) =>
                      \E i \in TryLocks(p) :
                          /\ log[p][i].r = "ok"
                          /\ \A j \in ItemEntries(p) : i < j
                /\ (op[p] = "migrate" /\ summary[p].total_pending > 0) =>
                      /\ Len(log[p]) >= 4 => log[p][4].s = "connect" /\ log[p][4].v = 0
                      /\ Len(log[p]) >= 5 => log[p][5].s = "TRY_LOCK"
                      /\ pc[p] \notin {"lock_connect", "try_lock"} => Len(log[p]) >= 4

\* C28 witness: a runner built from a config with neither useLock nor lockId applied an
\* item under the default lock
C28_Witness ==
    \E p \in Procs :
        /\ runner[p] = NewRunner("config", "unset", 0)
        /\ op[p] = "migrate" /\ ~dryRun[p] /\ Ended(p) /\ summary[p].total >= 1
        /\ \E i \in TryLocks(p) : log[p][i] = Entry(lockClient[p], "TRY_LOCK", DEFAULT_LOCK_ID, "ok")

\* the name has an ASCII letter or digit
HasAlphanumeric(str) == \E i \in 1..Len(str) : str[i].cls \in {"lower", "upper"}

\* C29: sanitizeName returns at most 100 characters, all of a-z, 0-9 and "_", with no
\* "_" at either end and no two "_" in a row; the result is empty exactly when the
\* name has no ASCII letter or digit, and then createMigrationFile throws, writes no
\* file and creates no directory. The truncation to 100 characters comes after the
\* stripping, so it can leave a "_" at the end; and toLowerCase turns U+212A into "k".
C29_SanitizedNameWellFormed ==
    /\ ret.fn = "sanitizeName" =>
          LET r == ret.value
          IN  /\ StrLen(r) <= NameLimit
              /\ \A i \in 1..Len(r) : r[i].cls \in {"lower", "under"}
              /\ \A i \in 1..Len(r) : r[i].cls = "under" => r[i].n = 1 /\ 1 < i /\ i < Len(r)
              /\ r = <<>> <=> ~HasAlphanumeric(name)
    /\ (ret.fn = "createMigrationFile" /\ ~HasAlphanumeric(name)) =>
          ret.value = "MigrationError" /\ dir \in DirsBefore

\* the place of the first token tok in the text, counted from 1, or 0
First(text, tok) ==
    IF \E i \in 1..Len(text) : text[i] = tok
    THEN CHOOSE i \in 1..Len(text) : text[i] = tok /\ \A j \in 1..(i - 1) : text[j] # tok
    ELSE 0

\* body is what is left of part when the white space at its two ends is removed
TrimmedFrom(body, part) ==
    /\ body = <<>> \/ (Head(body) # "ws" /\ body[Len(body)] # "ws")
    /\ \E a, b \in 0..Len(part) :
          /\ a + b <= Len(part)
          /\ body = SubSeq(part, a + 1, Len(part) - b)
          /\ \A i \in (1..a) \cup ((Len(part) - b + 1)..Len(part)) : part[i] = "ws"

\* how many times the token occurs in the text
Occurrences(text, tok) == Cardinality({i \in 1..Len(text) : text[i] = tok})

\* C30: for a text with an up-marker at u and its first down-marker at d,
\* parseMigrationFile returns: without a down-marker, everything after u as up-body
\* and an empty down-body; with u < d, the text between the markers as up-body and the
\* text after d as down-body; with d < u, the text between the markers as down-body
\* and everything after u as up-body. The bodies are trimmed, and no piece of text
\* of the file is in both bodies.
C30_ParseSections ==
    (ret.fn = "parseMigrationFile" /\ First(content, "UP") # 0) =>
        LET u == First(content, "UP")
            d == First(content, "DOWN")
            n == Len(content)
            r == ret.value
        IN  /\ r.found
            /\ d = 0 => r.downSql = <<>> /\ TrimmedFrom(r.upSql, SubSeq(content, u + 1, n))
            /\ d > u => /\ TrimmedFrom(r.upSql, SubSeq(content, u + 1, d - 1))
                        /\ TrimmedFrom(r.downSql, SubSeq(content, d + 1, n))
            /\ (0 < d /\ d < u) => /\ TrimmedFrom(r.downSql, SubSeq(content, d + 1, u - 1))
                                   /\ TrimmedFrom(r.upSql, SubSeq(content, u + 1, n))
            /\ \A t \in {"sqlA", "sqlB"} :
                  Occurrences(content, t) = 1 =>
                      ~(t \in SeqRange(r.upSql) /\ t \in SeqRange(r.downSql))

\* C30 witness: the down section comes first, each section with its own statement
C30_Witness ==
    /\ ret.fn = "parseMigrationFile"
    /\ content = <<"DOWN", "sqlB", "UP", "sqlA">>
    /\ ret.value = [found |-> TRUE, upSql |-> <<"sqlA">>, downSql |-> <<"sqlB">>]

\* C27: the checksum of a file is fixed by its trimmed up-body. Two texts with the
\* same trimmed up-body, whatever their headers, down-bodies and white space, have the
\* same checksum, so a record written from the one never shows checksumMismatch
\* against the other; and computeChecksum gives two texts that are equal after
\* trimming the same value.
C27_ChecksumOfUpBodyOnly ==
    /\ (ret.fn = "checksumMismatch"
            /\ parseMigrationFile(content).upSql = parseMigrationFile(edited).upSql) =>
          /\ ~ret.value
          /\ FileChecksum(content) = FileChecksum(edited)
    /\ (ret.fn = "computeChecksum" /\ Trim(content) = Trim(edited)) => ret.value = ret.other

\* C27 witness: the edit added a header and white space and removed the down section
C27_Witness ==
    /\ ret.fn = "checksumMismatch" /\ ~ret.value
    /\ content = <<"UP", "sqlA", "DOWN", "sqlB">>
    /\ edited = <<"sqlB", "UP", "ws", "sqlA">>


\* the name of a directory entry matches the pattern: 14 digits, "_", a name of lower
\* case letters, digits and underscores, ".sql"
GoodName(f) ==
    /\ f.sql /\ f.version \in Versions
    /\ f.name # <<>> /\ \A i \in 1..Len(f.name) : f.name[i].cls \in {"lower", "under"}

\* the text has an up-marker, and something other than white space between it and the
\* down-marker that follows it (or the end of the text)
HasUpBody(text) ==
    LET u == First(text, "UP")
        d == First(text, "DOWN")
        stop == IF d > u THEN d - 1 ELSE Len(text)
    IN  u # 0 /\ \E i \in (u + 1)..stop : text[i] # "ws"

\* the entries of the directory, as enumerated
Listing == IF dir.exists THEN dir.files ELSE <<>>

\* C26: whatever the order in which the directory is enumerated, readMigrationFiles()
\* returns its entries by ascending version; it returns one entry for each file whose
\* name matches the pattern and whose trimmed up-body is not empty, and no other; a
\* matching file without up-marker or with an empty up-body is reported by a warning
\* and left out, the other files being returned all the same.
C26_CatalogSortedAndFiltered ==
    ret.fn = "readMigrationFiles" =>
        LET out == ret.value
            good == {i \in 1..Len(Listing) : GoodName(Listing[i]) /\ HasUpBody(Listing[i].content)}
            skipped == {i \in 1..Len(Listing) : GoodName(Listing[i]) /\ ~HasUpBody(Listing[i].content)}
        IN  /\ \A i, j \in 1..Len(out) : i < j => out[i].version <= out[j].version
            /\ Len(out) = Cardinality(good)
            /\ \A i \in good : \E k \in 1..Len(out) :
                  out[k].version = Listing[i].version /\ out[k].name = Listing[i].name
            /\ \A k \in 1..Len(out) :
                  /\ out[k].upSql # <<>>
                  /\ \E i \in good : out[k].version = Listing[i].version /\ out[k].name = Listing[i].name
            /\ Len(ret.warned) = Cardinality(skipped)
            /\ \A i \in skipped : \E k \in 1..Len(ret.warned) :
                  FileNameOf(ret.warned[k]) = FileNameOf(Listing[i])

\* C26 witness: the directory lists the file of version 2 before that of version 1,
\* and the catalog has them as 1, 2
C26_Witness ==
    /\ ret.fn = "readMigrationFiles"
    /\ Len(Listing) = 2 /\ Listing[1].version = 2 /\ Listing[2].version = 1
    /\ Len(ret.value) = 2 /\ ret.value[1].version = 1 /\ ret.value[2].version = 2

\* C23: getStatus() returns one entry per catalog file, in the order of the catalog
\* (ascending version); the entry is 'applied' exactly when the tracking table has a
\* row of that version, and then its checksumMismatch tells whether the checksum of
\* the row differs from the checksum of the up-body the file has now; a pending entry
\* carries no checksumMismatch.
C23_StatusPerFile ==
    (ret.fn = "getStatus" /\ ret.threw = "") =>
        LET out == ret.value
            files == readMigrationFilesIn(dir)
        IN  /\ Len(out) = Len(files)
            /\ \A i, j \in 1..Len(out) : i < j => out[i].version <= out[j].version
            /\ \A i \in 1..Len(out) :
                  /\ out[i].version = files[i].version /\ out[i].name = files[i].name
                  /\ out[i].status \in {"applied", "pending"}
                  /\ (out[i].status = "applied") = (out[i].version \in records)
                  /\ out[i].status = "applied" =>
                        /\ out[i].checksumMismatch =
                              (checksums[out[i].version] # computeChecksum(files[i].upSql))
                        /\ out[i].checksum = checksums[out[i].version]
                  /\ out[i].status = "pending" => "checksumMismatch" \notin DOMAIN out[i]

\* C23 witness: an applied file edited since, reported with a mismatch, beside a
\* pending file
C23_Witness ==
    /\ ret.fn = "getStatus" /\ ret.threw = ""
    /\ Len(ret.value) = 2
    /\ ret.value[1].status = "applied" /\ ret.value[1].checksumMismatch
    /\ ret.value[2].status = "pending"


\* both runs of the same call have ended
TwinsEnded == pc[Solo] = "done" /\ pc[Twin] = "done"

StmtsOf(p, v) ==
    SelectSeq(log[p], LAMBDA e : e.v = v /\ e.s \in {"BEGIN", "UP", "DOWN", "INSERT", "DELETE", "COMMIT"})

\* the statements of a really-executed item, in the order the call is to send them
ItemScript(p) ==
    IF op[p] = "migrate" THEN <<"BEGIN", "UP", "INSERT", "COMMIT">>
    ELSE <<"BEGIN", "DOWN", "DELETE", "COMMIT">>

\* C33: the statements sent for an item of a real run are, on one connection, a
\* beginning of BEGIN, body, record write, COMMIT, each sent only when those before it
\* were accepted: no record write without an accepted body, no COMMIT after a failure.
\* The item is in the list of successes only when its COMMIT was accepted.
C33_ItemStatementsInOrder ==
    \A p \in Procs : \A v \in Versions :
        LET ss == StmtsOf(p, v)
        IN  /\ Len(ss) <= Len(ItemScript(p))
            /\ \A i \in 1..Len(ss) :
                  /\ ss[i].s = ItemScript(p)[i]
                  /\ ss[i].c = ss[1].c /\ ss[i].c # NoConn
                  /\ i < Len(ss) => ss[i].r = "ok"
            /\ (~dryRun[p] /\ v \in SeqRange(summary[p].list)) =>
                  /\ Len(ss) = Len(ItemScript(p))
                  /\ ss[Len(ss)].r = "ok"

\* C33 witness: a real rollback sent the four statements of version 2, all accepted,
\* then BEGIN and the down-body of version 1, which was rejected
C33_Witness ==
    \E p \in Procs :
        /\ Ended(p) /\ op[p] = "rollback" /\ ~dryRun[p]
        /\ summary[p].list = <<2>>
        /\ Len(StmtsOf(p, 2)) = 4
        /\ Len(StmtsOf(p, 1)) = 2 /\ StmtsOf(p, 1)[2].r # "ok"


\* C37: a ROLLBACK is sent on an execution connection only after a BEGIN for the same
\* item was accepted on that connection, in migrate() and in rollback(), a record
\* whose file is missing or has no down-body included.
C37_RollbackOnlyAfterBegin ==
    \A p \in Procs : \A i \in Idx(p) :
        log[p][i].s = "ROLLBACK" =>
            \E j \in 1..(i - 1) : log[p][j] = Entry(log[p][i].c, "BEGIN", log[p][i].v, "ok")


\* the connections the call of p has checked out and not released
HeldBy(p) ==
    {c \in ConnIds :
        Cardinality({i \in Idx(p) : log[p][i].s = "connect" /\ log[p][i].c = c})
            > Cardinality({i \in Idx(p) : log[p][i].s = "release" /\ log[p][i].c = c})}

\* the call of p is in its batch: after the lock was taken (if any), before the outer
\* finally block
InBatch(p) == pc[p] \in {"loop", "begin", "body", "record", "commit", "catch"}

\* C38: in a batch under the lock, the lock connection is checked out and stays so
\* until the last item has finished; no statement of an item's transaction is sent on
\* it; the execution connection is another one, and at most one is checked out at a
\* time: the call holds at most two connections of the pool, at most one when the
\* runner does not lock.
C38_LockConnectionApart ==
    \A p \in Procs :
        /\ (InBatch(p) /\ runner[p].useLock) =>
              /\ lockClient[p] # NoConn
              /\ pool[p][lockClient[p]] = "out"
              /\ lockClient[p] \in HeldBy(p)
        /\ lockClient[p] # NoConn =>
              /\ client[p] # lockClient[p]
              /\ \A i \in Idx(p) :
                    /\ log[p][i].s \in TxStmts => log[p][i].c # lockClient[p]
                    /\ log[p][i] = Entry(lockClient[p], "release", 0, "ok") =>
                          \A j \in Idx(p) : j > i => log[p][j].s \notin TxStmts \cup {"connect"}
        /\ HeldBy(p) \subseteq {lockClient[p], client[p]}
        /\ Cardinality(HeldBy(p)) <= (IF runner[p].useLock THEN 2 ELSE 1)
        /\ \A c \in HeldBy(p) : pool[p][c] = "out"

\* C38 witness: under the lock, the second item of the batch is in its transaction on
\* a connection other than the lock's: the call holds two connections
C38_Witness ==
    \E p \in Procs :
        /\ pc[p] = "record" /\ runner[p].useLock
        /\ Len(summary[p].list) = 1
        /\ HeldBy(p) = {lockClient[p], client[p]} /\ Cardinality(HeldBy(p)) = 2


\* the files of the directory, by ascending version
FilesAscending == SortAsc({v \in Versions : disk[v] # "missing"})

\* C39: from an empty tracking table, with n files that all have a down-body and no
\* request failing, migrate() followed by rollback(n) leaves the tracking table empty
\* (and no up-body effect in the schema); migrate() applied the n files, and the
\* versions rollback(n) lists are those migrate() listed, in reverse order.
C39_RoundTrip ==
    (/\ TwinsEnded
     /\ op[Solo] = "migrate" /\ ~dryRun[Solo] /\ before[Solo].records = {}
     /\ op[Twin] = "rollback" /\ ~dryRun[Twin]
     /\ \A v \in Versions : disk[v] # "nodown"
     /\ count[Twin] = Len(FilesAscending)) =>
        /\ summary[Solo].list = FilesAscending
        /\ summary[Twin].list = Reverse(summary[Solo].list)
        /\ summary[Solo].failed = NoFail /\ summary[Twin].failed = NoFail
        /\ exc[Solo] = NoExc /\ exc[Twin] = NoExc
        /\ records = {} /\ effects = {}

\* C39 witness: two files were applied, then rolled back by rollback(2)
C39_Witness ==
    /\ TwinsEnded
    /\ op[Solo] = "migrate" /\ op[Twin] = "rollback" /\ count[Twin] = 2
    /\ summary[Solo].list = <<1, 2>>
    /\ summary[Twin].list = <<2, 1>>
    /\ records = {}

\* C40: with no request failing, a dry run followed by the same call made for real,
\* on the same files and tracking table: the real migrate() applies the versions the
\* dry run listed, in the same order; the real rollback(count) rolls back the versions
\* the dry run listed, in the same order, and fails on the version the dry run failed
\* on (if any).
C40_DryRunPredicts ==
    (/\ TwinsEnded
     /\ dryRun[Solo] /\ ~dryRun[Twin]
     /\ op[Twin] = op[Solo]
     /\ op[Solo] = "rollback" => count[Twin] = count[Solo]) =>
        /\ exc[Solo] = NoExc /\ exc[Twin] = NoExc
        /\ summary[Twin].list = summary[Solo].list
        /\ summary[Twin].total = summary[Solo].total
        /\ summary[Twin].total_pending = summary[Solo].total_pending
        /\ summary[Twin].failed.version = summary[Solo].failed.version

\* C40 witness: the dry-run rollback(2) listed version 2 and failed on version 1, whose
\* file has no down-body; the real rollback(2) rolled back version 2 and failed on 1
C40_Witness ==
    /\ TwinsEnded
    /\ dryRun[Solo] /\ ~dryRun[Twin]
    /\ op[Solo] = "rollback" /\ op[Twin] = "rollback" /\ count[Solo] = 2 /\ count[Twin] = 2
    /\ summary[Solo].list = <<2>> /\ summary[Solo].failed.version = 1
    /\ summary[Twin].list = <<2>> /\ summary[Twin].failed.version = 1
    /\ records = {1}


\* the processes lock, and with the same lock id
SameLock(p, q) == runner[p].useLock /\ runner[q].useLock /\ runner[p].lockId = runner[q].lockId

\* the call of p has had the up-body of v executed
UpExecuted(p, v) == \E i \in Idx(p) : log[p][i].s = "UP" /\ log[p][i].v = v /\ log[p][i].r = "ok"

\* C34: of two processes that lock with the same id and call migrate() over the same
\* files, none, while it holds the lock, has the up-body of a version executed that
\* already has a tracking record, and the up-body of a version is executed by one of
\* them at most.
C34_UpBodyOnceUnderLock ==
    \A p, q \in Procs :
        (p # q /\ SameLock(p, q) /\ op[p] = "migrate" /\ op[q] \in {"migrate", "none"}) =>
            /\ (HasLock(p) /\ pc[p] = "record") => Head(queue[p]).version \notin records
            /\ calls <= 2 => \A v \in Versions : ~(UpExecuted(p, v) /\ UpExecuted(q, v))


\* C35: of two processes that lock with the same id and call rollback(1) on the same
\* state, one at most has the down-body of a version committed, and a call is about
\* to commit (and then report as rolled back) only a version whose tracking record its
\* own DELETE has removed.
C35_DownBodyOnceUnderLock ==
    \A p, q \in Procs :
        (/\ p # q /\ SameLock(p, q)
         /\ op[p] = "rollback" /\ ~dryRun[p] /\ count[p] = 1
         /\ op[q] \in {"rollback", "none"}) =>
            /\ \A v \in Versions : commitCount[<<"down", v>>] <= 1
            /\ (HasLock(p) /\ pc[p] = "commit") => <<"del", Head(queue[p]).version>> \in tx[p].writes


\* the try-lock of the call of p was refused
Refused(p) == \E i \in Idx(p) : log[p][i].s = "TRY_LOCK" /\ log[p][i].r = "refused"

\* C36: on a pool of PoolMax connections, with every request answered, a call made
\* after other calls of the same runner have ended (with MigrationLockError or not)
\* and whose try-lock is not refused runs to its end and returns a summary: it does
\* not end with the error of a connection checkout that found the pool used up.
C36_LaterCallReturnsSummary ==
    \A p \in Procs :
        (prev[p] # "none" /\ ~Refused(p)) =>
            /\ Ended(p) => exc[p] = NoExc
            /\ \A i \in Idx(p) : log[p][i].s = "connect" => log[p][i].r = "ok"

\* ------------------------------------------- claims on validateMigrationSQL
Validated == ret.fn = "validateMigrationSQL"
Holds(line, word) == \E i \in 1..Len(line) : line[i] = word
WordOf(w) == IF w.rule = "raise" THEN "RAISE" ELSE "BEGIN"

\* C31: every warning reported with a line number carries the 1-based index,
\* in the section text passed in, of the line that holds the offending
\* statement, also for a RAISE line that follows a multi-line DO block.
C31_LineIsSourceLine ==
    Validated =>
        \A i \in 1..Len(ret.value) :
            LET w == ret.value[i]
                lines == SplitLines(content)
            IN  w.line # 0 =>
                    /\ w.line <= Len(lines)
                    /\ Holds(lines[w.line], WordOf(w))

\* the section holds exactly one DO $$ ... $$ block: one "DO", directly
\* followed by the opening "$$", and one closing "$$"
Positions(word) == {i \in 1..Len(content) : content[i] = word}
OneDoBlock ==
    /\ Cardinality(Positions("DO")) = 1
    /\ Cardinality(Positions("$$")) = 2
    /\ \E i \in Positions("DO") : i + 1 \in Positions("$$") /\ \A j \in Positions("$$") : j > i
InsideDoBlock(i) == \E a, b \in Positions("$$") : a < i /\ i < b
Reported(rule) == \E i \in 1..Len(ret.value) : ret.value[i].rule = rule

\* C32: for an up or down section, RAISE lines and bare BEGIN lines that lie
\* inside a DO $$ ... $$ block (also when BEGIN is on a line of its own)
\* produce no RAISE error and no transaction-control error.
C32_DoBlockNotFlagged ==
    (Validated /\ OneDoBlock) =>
        /\ (\A i \in Positions("RAISE") : InsideDoBlock(i)) => ~Reported("raise")
        /\ (\A i \in Positions("BEGIN") : InsideDoBlock(i)) => ~Reported("tx")

====
